---- MODULE Spec2Model ----
(***************************************************************************)
(* Global hotkey hook of livesplit-hotkey (Windows back end):              *)
(* crates/livesplit-hotkey/src/windows/mod.rs.                             *)
(*                                                                         *)
(* Three threads are modelled: the application thread (Hook::new,          *)
(* register, unregister, Drop), the engine thread that owns the low-level  *)
(* keyboard hook and runs the GetMessageW loop (callback_proc runs on it), *)
(* and the dispatcher thread that drains the event channel and invokes the *)
(* registered callbacks under the registry mutex.                          *)
(***************************************************************************)
EXTENDS Integers, Sequences, FiniteSets, TLC

\* ------------------------------------------------------------------ bounds
\* Hotkeys the engine sends on the events channel in one behaviour.
MaxSent == 2
\* register / unregister calls issued by the application in one behaviour.
MaxOps == 2
\* Most segments of the run the splits component shows.
MaxSegments == 4
\* Largest visual_split_count and split_preview_count of the settings.
MaxVisual == 4
MaxPreview == 1
\* Most scroll_up / scroll_down calls between two calls of update_state.
MaxScroll == 2

\* ------------------------------------------------------- program constants
MSG_EXIT == 1024
WM_KEYDOWN == 256
WM_KEYUP == 257
WM_SYSKEYDOWN == 260
WM_SYSKEYUP == 261
LLKHF_EXTENDED == 1
\* The offset the extended flag adds to the scan code (0xE000).
EXTENDED_OFFSET == 57344

None == "None"

\* Modifiers is a bit set over these four flags; it is modelled as a set.
ALT == "ALT"
CONTROL == "CONTROL"
META == "META"
SHIFT == "SHIFT"
ModifierFlags == {ALT, CONTROL, META, SHIFT}

\* The preferences Hook::new accepts; only MustConsume is rejected.
ConsumePreference ==
    {"NoPreference", "PreferConsume", "PreferNoConsume", "MustConsume", "MustNotConsume"}

\* The KeyCode variants parse_scan_code can return, numbered in the order of
\* their first appearance; KeyCodeValue is the u8 discriminant key_idx reads.
KeyCodeSeq == <<
    "Escape", "Digit1", "Digit2", "Digit3", "Digit4", "Digit5", "Digit6", "Digit7",
    "Digit8", "Digit9", "Digit0", "Minus", "Equal", "Backspace", "Tab", "KeyQ", "KeyW",
    "KeyE", "KeyR", "KeyT", "KeyY", "KeyU", "KeyI", "KeyO", "KeyP", "BracketLeft",
    "BracketRight", "Enter", "ControlLeft", "KeyA", "KeyS", "KeyD", "KeyF", "KeyG",
    "KeyH", "KeyJ", "KeyK", "KeyL", "Semicolon", "Quote", "Backquote", "ShiftLeft",
    "Backslash", "KeyZ", "KeyX", "KeyC", "KeyV", "KeyB", "KeyN", "KeyM", "Comma",
    "Period", "Slash", "ShiftRight", "NumpadMultiply", "AltLeft", "Space", "CapsLock",
    "F1", "F2", "F3", "F4", "F5", "F6", "F7", "F8", "F9", "F10", "Pause", "ScrollLock",
    "Numpad7", "Numpad8", "Numpad9", "NumpadSubtract", "Numpad4", "Numpad5", "Numpad6",
    "NumpadAdd", "Numpad1", "Numpad2", "Numpad3", "Numpad0", "NumpadDecimal",
    "PrintScreen", "IntlBackslash", "F11", "F12", "NumpadEqual", "F13", "F14", "F15",
    "F16", "F17", "F18", "F19", "F20", "F21", "F22", "F23", "KanaMode", "Lang2",
    "Lang1", "IntlRo", "F24", "Lang4", "Lang3", "Convert", "NonConvert", "IntlYen",
    "NumpadComma", "Undo", "Paste", "MediaTrackPrevious", "Cut", "Copy",
    "MediaTrackNext", "NumpadEnter", "ControlRight", "LaunchMail", "AudioVolumeMute",
    "LaunchApp2", "MediaPlayPause", "MediaStop", "Eject", "AudioVolumeDown",
    "AudioVolumeUp", "BrowserHome", "NumpadDivide", "AltRight", "Help", "NumLock",
    "Home", "ArrowUp", "PageUp", "ArrowLeft", "ArrowRight", "End", "ArrowDown",
    "PageDown", "Insert", "Delete", "MetaLeft", "MetaRight", "ContextMenu", "Power",
    "Sleep", "WakeUp", "BrowserSearch", "BrowserFavorites", "BrowserRefresh",
    "BrowserStop", "BrowserForward", "BrowserBack", "LaunchApp1", "MediaSelect" >>

KeyCode == {KeyCodeSeq[i] : i \in 1..Len(KeyCodeSeq)}

KeyCodeValues ==
    [key_code \in KeyCode |->
        (CHOOSE i \in 1..Len(KeyCodeSeq) : KeyCodeSeq[i] = key_code) - 1]

KeyCodeValue(key_code) == KeyCodeValues[key_code]

\* The match arms of parse_scan_code: raw scan code -> KeyCode.
ScanCodeTable ==
    (\h0001 :> "Escape")
    @@ (\h0002 :> "Digit1")
    @@ (\h0003 :> "Digit2")
    @@ (\h0004 :> "Digit3")
    @@ (\h0005 :> "Digit4")
    @@ (\h0006 :> "Digit5")
    @@ (\h0007 :> "Digit6")
    @@ (\h0008 :> "Digit7")
    @@ (\h0009 :> "Digit8")
    @@ (\h000A :> "Digit9")
    @@ (\h000B :> "Digit0")
    @@ (\h000C :> "Minus")
    @@ (\h000D :> "Equal")
    @@ (\h000E :> "Backspace")
    @@ (\h000F :> "Tab")
    @@ (\h0010 :> "KeyQ")
    @@ (\h0011 :> "KeyW")
    @@ (\h0012 :> "KeyE")
    @@ (\h0013 :> "KeyR")
    @@ (\h0014 :> "KeyT")
    @@ (\h0015 :> "KeyY")
    @@ (\h0016 :> "KeyU")
    @@ (\h0017 :> "KeyI")
    @@ (\h0018 :> "KeyO")
    @@ (\h0019 :> "KeyP")
    @@ (\h001A :> "BracketLeft")
    @@ (\h001B :> "BracketRight")
    @@ (\h001C :> "Enter")
    @@ (\h001D :> "ControlLeft")
    @@ (\h001E :> "KeyA")
    @@ (\h001F :> "KeyS")
    @@ (\h0020 :> "KeyD")
    @@ (\h0021 :> "KeyF")
    @@ (\h0022 :> "KeyG")
    @@ (\h0023 :> "KeyH")
    @@ (\h0024 :> "KeyJ")
    @@ (\h0025 :> "KeyK")
    @@ (\h0026 :> "KeyL")
    @@ (\h0027 :> "Semicolon")
    @@ (\h0028 :> "Quote")
    @@ (\h0029 :> "Backquote")
    @@ (\h002A :> "ShiftLeft")
    @@ (\h002B :> "Backslash")
    @@ (\h002C :> "KeyZ")
    @@ (\h002D :> "KeyX")
    @@ (\h002E :> "KeyC")
    @@ (\h002F :> "KeyV")
    @@ (\h0030 :> "KeyB")
    @@ (\h0031 :> "KeyN")
    @@ (\h0032 :> "KeyM")
    @@ (\h0033 :> "Comma")
    @@ (\h0034 :> "Period")
    @@ (\h0035 :> "Slash")
    @@ (\h0036 :> "ShiftRight")
    @@ (\h0037 :> "NumpadMultiply")
    @@ (\h0038 :> "AltLeft")
    @@ (\h0039 :> "Space")
    @@ (\h003A :> "CapsLock")
    @@ (\h003B :> "F1")
    @@ (\h003C :> "F2")
    @@ (\h003D :> "F3")
    @@ (\h003E :> "F4")
    @@ (\h003F :> "F5")
    @@ (\h0040 :> "F6")
    @@ (\h0041 :> "F7")
    @@ (\h0042 :> "F8")
    @@ (\h0043 :> "F9")
    @@ (\h0044 :> "F10")
    @@ (\h0045 :> "Pause")
    @@ (\h0046 :> "ScrollLock")
    @@ (\h0047 :> "Numpad7")
    @@ (\h0048 :> "Numpad8")
    @@ (\h0049 :> "Numpad9")
    @@ (\h004A :> "NumpadSubtract")
    @@ (\h004B :> "Numpad4")
    @@ (\h004C :> "Numpad5")
    @@ (\h004D :> "Numpad6")
    @@ (\h004E :> "NumpadAdd")
    @@ (\h004F :> "Numpad1")
    @@ (\h0050 :> "Numpad2")
    @@ (\h0051 :> "Numpad3")
    @@ (\h0052 :> "Numpad0")
    @@ (\h0053 :> "NumpadDecimal")
    @@ (\h0054 :> "PrintScreen")
    @@ (\h0056 :> "IntlBackslash")
    @@ (\h0057 :> "F11")
    @@ (\h0058 :> "F12")
    @@ (\h0059 :> "NumpadEqual")
    @@ (\h0064 :> "F13")
    @@ (\h0065 :> "F14")
    @@ (\h0066 :> "F15")
    @@ (\h0067 :> "F16")
    @@ (\h0068 :> "F17")
    @@ (\h0069 :> "F18")
    @@ (\h006A :> "F19")
    @@ (\h006B :> "F20")
    @@ (\h006C :> "F21")
    @@ (\h006D :> "F22")
    @@ (\h006E :> "F23")
    @@ (\h0070 :> "KanaMode")
    @@ (\h0071 :> "Lang2")
    @@ (\h0072 :> "Lang1")
    @@ (\h0073 :> "IntlRo")
    @@ (\h0076 :> "F24")
    @@ (\h0077 :> "Lang4")
    @@ (\h0078 :> "Lang3")
    @@ (\h0079 :> "Convert")
    @@ (\h007B :> "NonConvert")
    @@ (\h007D :> "IntlYen")
    @@ (\h007E :> "NumpadComma")
    @@ (\hE008 :> "Undo")
    @@ (\hE00A :> "Paste")
    @@ (\hE010 :> "MediaTrackPrevious")
    @@ (\hE017 :> "Cut")
    @@ (\hE018 :> "Copy")
    @@ (\hE019 :> "MediaTrackNext")
    @@ (\hE01C :> "NumpadEnter")
    @@ (\hE01D :> "ControlRight")
    @@ (\hE01E :> "LaunchMail")
    @@ (\hE020 :> "AudioVolumeMute")
    @@ (\hE021 :> "LaunchApp2")
    @@ (\hE022 :> "MediaPlayPause")
    @@ (\hE024 :> "MediaStop")
    @@ (\hE02C :> "Eject")
    @@ (\hE02E :> "AudioVolumeDown")
    @@ (\hE030 :> "AudioVolumeUp")
    @@ (\hE032 :> "BrowserHome")
    @@ (\hE035 :> "NumpadDivide")
    @@ (\hE036 :> "ShiftRight")
    @@ (\hE037 :> "PrintScreen")
    @@ (\hE038 :> "AltRight")
    @@ (\hE03B :> "Help")
    @@ (\hE045 :> "NumLock")
    @@ (\hE046 :> "Pause")
    @@ (\hE047 :> "Home")
    @@ (\hE048 :> "ArrowUp")
    @@ (\hE049 :> "PageUp")
    @@ (\hE04B :> "ArrowLeft")
    @@ (\hE04D :> "ArrowRight")
    @@ (\hE04F :> "End")
    @@ (\hE050 :> "ArrowDown")
    @@ (\hE051 :> "PageDown")
    @@ (\hE052 :> "Insert")
    @@ (\hE053 :> "Delete")
    @@ (\hE05B :> "MetaLeft")
    @@ (\hE05C :> "MetaRight")
    @@ (\hE05D :> "ContextMenu")
    @@ (\hE05E :> "Power")
    @@ (\hE05F :> "Sleep")
    @@ (\hE063 :> "WakeUp")
    @@ (\hE065 :> "BrowserSearch")
    @@ (\hE066 :> "BrowserFavorites")
    @@ (\hE067 :> "BrowserRefresh")
    @@ (\hE068 :> "BrowserStop")
    @@ (\hE069 :> "BrowserForward")
    @@ (\hE06A :> "BrowserBack")
    @@ (\hE06B :> "LaunchApp1")
    @@ (\hE06C :> "LaunchMail")
    @@ (\hE06D :> "MediaSelect")
    @@ (\hE0F1 :> "Lang2")
    @@ (\hE0F2 :> "Lang1")

\* Mutant of parse_scan_code: the lookup uses the low byte of the value, which
\* drops the extended prefix.
parse_scan_code_LowByte(value) ==
    IF (value % 256) \in DOMAIN ScanCodeTable
    THEN ScanCodeTable[value % 256]
    ELSE None

\* Mutant of parse_scan_code: the arms of 0x0010 and 0x0011 return each
\* other's KeyCode.
parse_scan_code_SwappedArms(value) ==
    IF value = \h0010 THEN "KeyW"
    ELSE IF value = \h0011 THEN "KeyQ"
    ELSE IF value \in DOMAIN ScanCodeTable THEN ScanCodeTable[value] ELSE None

\* const fn parse_scan_code(value: u32) -> Option<KeyCode>
parse_scan_code(value) ==
    IF value \in DOMAIN ScanCodeTable THEN ScanCodeTable[value] ELSE None

\* The reverse mapping of Hook::try_resolve: the scan code of every KeyCode
\* that can produce a character (the arms of its match before `_`).
ReverseScanCode ==
    ("Backquote" :> \h0029) @@ ("Backslash" :> \h002B) @@ ("BracketLeft" :> \h001A) @@
    ("BracketRight" :> \h001B) @@ ("Comma" :> \h0033) @@ ("Digit1" :> \h0002) @@
    ("Digit2" :> \h0003) @@ ("Digit3" :> \h0004) @@ ("Digit4" :> \h0005) @@
    ("Digit5" :> \h0006) @@ ("Digit6" :> \h0007) @@ ("Digit7" :> \h0008) @@
    ("Digit8" :> \h0009) @@ ("Digit9" :> \h000A) @@ ("Digit0" :> \h000B) @@
    ("Equal" :> \h000D) @@ ("IntlBackslash" :> \h0056) @@ ("IntlRo" :> \h0073) @@
    ("IntlYen" :> \h007D) @@ ("KeyA" :> \h001E) @@ ("KeyB" :> \h0030) @@
    ("KeyC" :> \h002E) @@ ("KeyD" :> \h0020) @@ ("KeyE" :> \h0012) @@
    ("KeyF" :> \h0021) @@ ("KeyG" :> \h0022) @@ ("KeyH" :> \h0023) @@
    ("KeyI" :> \h0017) @@ ("KeyJ" :> \h0024) @@ ("KeyK" :> \h0025) @@
    ("KeyL" :> \h0026) @@ ("KeyM" :> \h0032) @@ ("KeyN" :> \h0031) @@
    ("KeyO" :> \h0018) @@ ("KeyP" :> \h0019) @@ ("KeyQ" :> \h0010) @@
    ("KeyR" :> \h0013) @@ ("KeyS" :> \h001F) @@ ("KeyT" :> \h0014) @@
    ("KeyU" :> \h0016) @@ ("KeyV" :> \h002F) @@ ("KeyW" :> \h0011) @@
    ("KeyX" :> \h002D) @@ ("KeyY" :> \h0015) @@ ("KeyZ" :> \h002C) @@
    ("Minus" :> \h000C) @@ ("Period" :> \h0034) @@ ("Quote" :> \h0028) @@
    ("Semicolon" :> \h0027) @@ ("Slash" :> \h0035)

\* A u32 that can have its top bit set, as the pair of its top bit and its
\* low 31 bits: the value is top * 2^31 + low.
U32(top, low) == [top |-> top, low |-> low]

\* mapped_char & TOP_BIT_MASK, where TOP_BIT_MASK is u32::MAX >> 1.
MaskTopBit(mapped_char) == mapped_char.low

\* char::from_u32: <<c>> is Some(c), <<>> is None; surrogates and values
\* above 0x10FFFF are no characters.
CharFromU32(char) ==
    IF char <= \h10FFFF /\ ~(char >= \hD800 /\ char <= \hDFFF)
    THEN <<char>>
    ELSE <<>>

\* Mutant of ResolveKey: the character step is not tested for 0.
ResolveKey_NoCharTest(key_code, virtual_key_code, mapped_char) ==
    IF key_code \notin DOMAIN ReverseScanCode
    THEN [scan_code |-> <<>>, result |-> <<>>]
    ELSE IF virtual_key_code = 0
    THEN [scan_code |-> <<ReverseScanCode[key_code]>>, result |-> <<>>]
    ELSE LET char == CharFromU32(MaskTopBit(mapped_char))
         IN  [scan_code |-> <<ReverseScanCode[key_code]>>,
              result |-> IF char = <<>> THEN <<>> ELSE << <<char[1]>> >>]

\* The body of Hook::try_resolve. virtual_key_code and mapped_char are what
\* the two calls of MapVirtualKeyW return. scan_code is the local of that
\* name (<<>> when the match returns early); result is the returned
\* Option<String>: <<>> is None, << s >> is Some(s), s the string of one
\* character.
ResolveKey(key_code, virtual_key_code, mapped_char) ==
    IF key_code \notin DOMAIN ReverseScanCode
    THEN [scan_code |-> <<>>, result |-> <<>>]
    ELSE IF virtual_key_code = 0
    THEN [scan_code |-> <<ReverseScanCode[key_code]>>, result |-> <<>>]
    ELSE IF mapped_char = U32(0, 0)
    THEN [scan_code |-> <<ReverseScanCode[key_code]>>, result |-> <<>>]
    ELSE LET char == CharFromU32(MaskTopBit(mapped_char))
         IN  [scan_code |-> <<ReverseScanCode[key_code]>>,
              result |-> IF char = <<>> THEN <<>> ELSE << <<char[1]>> >>]

\* ----------------------------------------------------------- pure helpers
\* core::cmp::min and core::cmp::max.
min(a, b) == IF a <= b THEN a ELSE b
max(a, b) == IF a >= b THEN a ELSE b

\* isize::saturating_sub and isize::saturating_add for the small offsets of
\* the splits component, where the result never reaches isize::MIN or MAX.
saturating_sub(a, b) == a - b
saturating_add(a, b) == a + b

\* The fields of the splits component's Settings that decide which segments
\* update_state shows, with the values of Settings::default().
DefaultSettings ==
    [visual_split_count |-> 16, split_preview_count |-> 1,
     always_show_last_split |-> TRUE, fill_with_blank_space |-> TRUE]

\* SplitState::index of a segment, and of the i-th blank entry, which is
\* (usize::MAX ^ 1) - 2 * i, that is usize::MAX - (1 + 2 * i): <<0, i>> is
\* the usize i and <<1, d>> is the usize usize::MAX - d.
SegmentIndex(i) == <<0, i>>
\* Mutant of BlankIndex: the index does not depend on i.
BlankIndex_Same(i) == <<1, 1>>
BlankIndex(i) == <<1, 1 + 2 * i>>

\* Mutant of VisualSplitCount: the setting is used as it is, 0 included.
VisualSplitCount_NoZeroCase(s, n) == s.visual_split_count

\* visual_split_count of update_state: the setting, or run.len() when it is 0.
VisualSplitCount(s, n) ==
    IF s.visual_split_count = 0 THEN n ELSE s.visual_split_count

\* Mutant of ClampScroll: the upper limit of the offset is missing.
ClampScroll_NoUpperLimit(offset, skip_count, n, visual_split_count) ==
    max(offset, -skip_count)

\* self.scroll_offset = min(max(self.scroll_offset, -skip_count),
\*                          run.len() - skip_count - visual_split_count)
ClampScroll(offset, skip_count, n, visual_split_count) ==
    min(max(offset, -skip_count), n - skip_count - visual_split_count)

\* Mutant of TakeCount: the place of the locked last split is not taken off.
TakeCount_IgnoresLocked(visual_split_count, locked_last_split) ==
    visual_split_count

\* take_count = visual_split_count - locked_last_split as usize
TakeCount(visual_split_count, locked_last_split) ==
    visual_split_count - locked_last_split

\* Mutant of IsShown: the last segment is shown only inside the window.
IsShown_WindowOnly(i, skip_count, take_count, always_show_last_split, n) ==
    i - skip_count < take_count

\* The filter of update_state on the segments after the skipped ones:
\* i - skip_count < take_count || (always_show_last_split && i + 1 == run.len())
IsShown(i, skip_count, take_count, always_show_last_split, n) ==
    i - skip_count < take_count \/ (always_show_last_split /\ i + 1 = n)

\* Mutant of ResetOffset: the offset survives a change of the split index.
ResetOffset_Never(index, offset, current_split) == offset

\* The scroll offset after the test at the start of update_state: 0 when the
\* timer's current split index differs from the stored one.
ResetOffset(index, offset, current_split) ==
    IF index # current_split THEN 0 ELSE offset

\* The first skip_count of update_state, before the scroll offset is added.
BaseSkipCount(s, n, current_split) ==
    LET visual_split_count == VisualSplitCount(s, n)
        locked_last_split == IF s.always_show_last_split THEN 1 ELSE 0
    IN  min(IF current_split = <<>> THEN 0
            ELSE max(0, current_split[1] + s.split_preview_count
                            + locked_last_split + 1 - visual_split_count),
            n - visual_split_count)

\* Component::update_state for a run of n segments and the timer's
\* current_split (<<>> is None, <<i>> is Some(i)): the component's new
\* current_split_index and scroll_offset, the final skip_count and the entries
\* of state.splits. Columns, icons, names and separators are left out.
UpdateState(s, n, index, offset, current_split) ==
    LET offset0 == ResetOffset(index, offset, current_split)
        visual_split_count == VisualSplitCount(s, n)
        locked_last_split == IF s.always_show_last_split THEN 1 ELSE 0
        skip0 == BaseSkipCount(s, n, current_split)
        offset1 == ClampScroll(offset0, skip0, n, visual_split_count)
        skip_count == max(0, skip0 + offset1)
        take_count == TakeCount(visual_split_count, locked_last_split)
        Shown(i) == IsShown(i, skip_count, take_count, s.always_show_last_split, n)
        shown == SelectSeq([k \in 1..(n - skip_count) |-> skip_count + k - 1], Shown)
        segments == [k \in 1..Len(shown) |->
                        [index |-> SegmentIndex(shown[k]),
                         is_current_split |-> current_split = <<shown[k]>>]]
        blank == IF s.fill_with_blank_space /\ Len(segments) < visual_split_count
                 THEN [i \in 1..(visual_split_count - Len(segments)) |->
                        [index |-> BlankIndex(i - 1), is_current_split |-> FALSE]]
                 ELSE <<>>
    IN  [current_split_index |-> current_split, scroll_offset |-> offset1,
         skip_count |-> skip_count, splits |-> segments \o blank]

\* x & bit for a single-bit mask (bit is a power of two).
BitAnd(x, bit) == ((x \div bit) % 2) * bit

\* MapVirtualKeyW(vkCode, MAPVK_VK_TO_VSC_EX) of the operating system, for the
\* virtual keys the modelled keyboard produces; 0 is "no translation".
MapVirtualKeyW(vkCode) ==
    CASE vkCode = \h41 -> \h001E
      [] vkCode = \hA2 -> \h001D
      [] vkCode = \hA3 -> \hE01D
      [] OTHER -> 0

\* Mutant of ScanCodeOf: the extended flag is not folded into the code.
ScanCodeOf_NoExtended(scanCode, flags, vkCode) ==
    IF scanCode # 0 THEN scanCode ELSE MapVirtualKeyW(vkCode)

\* The lookup key of a native event (callback_proc, both branches). The u32
\* sum cannot wrap for the scan codes a keyboard reports (below 0x10000).
ScanCodeOf(scanCode, flags, vkCode) ==
    IF scanCode # 0
    THEN scanCode + BitAnd(flags, LLKHF_EXTENDED) * EXTENDED_OFFSET
    ELSE MapVirtualKeyW(vkCode)

\* fn key_idx(key_code: KeyCode) -> (u8, u8)
key_idx(key_code) ==
    LET value == KeyCodeValue(key_code)
    IN  <<value \div 8, 2 ^ (value % 8)>>

\* Mutant of KeyIsUp: the key-state test is missing, every key-down counts
\* as a transition.
KeyIsUp_Always(key_state, key_code) == TRUE

\* key_state[idx] & bit == 0
KeyIsUp(key_state, key_code) ==
    LET ib == key_idx(key_code)
    IN  BitAnd(key_state[ib[1]], ib[2]) = 0

\* key_state[idx] |= bit
SetDown(key_state, key_code) ==
    LET ib == key_idx(key_code)
    IN  [key_state EXCEPT ![ib[1]] =
            IF BitAnd(@, ib[2]) = 0 THEN @ + ib[2] ELSE @]

\* key_state[idx] &= !bit
SetUp(key_state, key_code) ==
    LET ib == key_idx(key_code)
    IN  [key_state EXCEPT ![ib[1]] =
            IF BitAnd(@, ib[2]) = 0 THEN @ ELSE @ - ib[2]]

\* The Modifiers flag of a modifier key (the match arms of callback_proc);
\* the empty set for every other key.
ModifierOf(key_code) ==
    CASE key_code \in {"AltLeft", "AltRight"} -> {ALT}
      [] key_code \in {"ControlLeft", "ControlRight"} -> {CONTROL}
      [] key_code \in {"MetaLeft", "MetaRight"} -> {META}
      [] key_code \in {"ShiftLeft", "ShiftRight"} -> {SHIFT}
      [] OTHER -> {}

\* state.modifiers.insert(..) of the key-down branch.
InsertModifier(modifiers, key_code) == modifiers \cup ModifierOf(key_code)

\* state.modifiers.remove(..) of the key-up branch.
RemoveModifier(modifiers, key_code) == modifiers \ ModifierOf(key_code)

Hotkey(key_code, modifiers) == [key_code |-> key_code, modifiers |-> modifiers]

\* Mutant of KeyDown: the modifier bit is set before the Hotkey is composed.
KeyDown_ModifierFirst(st, key_code) ==
    IF KeyIsUp(st.key_state, key_code)
    THEN [st |-> [st EXCEPT !.key_state = SetDown(@, key_code),
                            !.modifiers = InsertModifier(@, key_code)],
          sent |-> <<Hotkey(key_code, InsertModifier(st.modifiers, key_code))>>]
    ELSE [st |-> st, sent |-> <<>>]

\* The key-down branch on a recognised key: the new State and the Hotkeys sent.
KeyDown(st, key_code) ==
    IF KeyIsUp(st.key_state, key_code)
    THEN [st |-> [st EXCEPT !.key_state = SetDown(@, key_code),
                            !.modifiers = InsertModifier(@, key_code)],
          sent |-> <<Hotkey(key_code, st.modifiers)>>]
    ELSE [st |-> st, sent |-> <<>>]

\* Mutant of KeyUp: the key-up branch sends a Hotkey like the key-down branch.
KeyUp_SendsHotkey(st, key_code) ==
    [st |-> [st EXCEPT !.key_state = SetUp(@, key_code),
                       !.modifiers = RemoveModifier(@, key_code)],
     sent |-> <<Hotkey(key_code, st.modifiers)>>]

\* Mutant of KeyUp: the branch acts only on a key that is tracked as down.
KeyUp_OnlyIfDown(st, key_code) ==
    IF KeyIsUp(st.key_state, key_code)
    THEN [st |-> st, sent |-> <<>>]
    ELSE [st |-> [st EXCEPT !.key_state = SetUp(@, key_code),
                            !.modifiers = RemoveModifier(@, key_code)],
          sent |-> <<>>]

\* The key-up branch on a recognised key.
KeyUp(st, key_code) ==
    [st |-> [st EXCEPT !.key_state = SetUp(@, key_code),
                       !.modifiers = RemoveModifier(@, key_code)],
     sent |-> <<>>]

\* Mutant of ProcessEvent: the key-down branch is also taken for WM_KEYUP and
\* WM_SYSKEYUP.
ProcessEvent_UpAsDown(st, code, wparam, scanCode, flags, vkCode) ==
    LET key_code == parse_scan_code(ScanCodeOf(scanCode, flags, vkCode))
        r == IF  /\ code >= 0
                 /\ wparam \in {WM_KEYDOWN, WM_SYSKEYDOWN, WM_KEYUP, WM_SYSKEYUP}
                 /\ key_code # None
             THEN KeyDown(st, key_code)
             ELSE [st |-> st, sent |-> <<>>]
    IN  [st |-> r.st, sent |-> r.sent, forwarded |-> 1]

\* The body of callback_proc on the thread-local State: the new State, the
\* Hotkeys sent on the events channel and the number of CallNextHookEx calls.
ProcessEvent(st, code, wparam, scanCode, flags, vkCode) ==
    LET key_code == parse_scan_code(ScanCodeOf(scanCode, flags, vkCode))
        r == IF code >= 0 /\ wparam \in {WM_KEYDOWN, WM_SYSKEYDOWN} /\ key_code # None
             THEN KeyDown(st, key_code)
             ELSE IF code >= 0 /\ wparam \in {WM_KEYUP, WM_SYSKEYUP} /\ key_code # None
             THEN KeyUp(st, key_code)
             ELSE [st |-> st, sent |-> <<>>]
    IN  [st |-> r.st, sent |-> r.sent, forwarded |-> 1]

\* Mutant of RegisterMap: HashMap::insert, which replaces an existing entry.
RegisterMap_Replace(map, hotkey, callback) ==
    [map |-> [h \in DOMAIN map \cup {hotkey} |->
                 IF h = hotkey THEN callback ELSE map[h]],
     result |-> IF hotkey \in DOMAIN map THEN "AlreadyRegistered" ELSE "Ok"]

\* HashMap::entry(hotkey) + VacantEntry::insert of Hook::register.
RegisterMap(map, hotkey, callback) ==
    IF hotkey \in DOMAIN map
    THEN [map |-> map, result |-> "AlreadyRegistered"]
    ELSE [map |-> [h \in DOMAIN map \cup {hotkey} |->
                      IF h = hotkey THEN callback ELSE map[h]],
          result |-> "Ok"]

\* Mutant of UnregisterMap: removes every entry of the key code, whatever
\* its modifiers.
UnregisterMap_AnyModifiers(map, hotkey) ==
    LET hit == {h \in DOMAIN map : h.key_code = hotkey.key_code}
    IN  [map |-> [h \in DOMAIN map \ hit |-> map[h]],
         result |-> IF hit # {} THEN "Ok" ELSE "NotRegistered"]

\* Mutant of UnregisterMap: reports the removal and leaves the entry.
UnregisterMap_KeepsEntry(map, hotkey) ==
    [map |-> map,
     result |-> IF hotkey \in DOMAIN map THEN "Ok" ELSE "NotRegistered"]

\* HashMap::remove(&hotkey).is_some() of Hook::unregister.
UnregisterMap(map, hotkey) ==
    IF hotkey \in DOMAIN map
    THEN [map |-> [h \in DOMAIN map \ {hotkey} |-> map[h]], result |-> "Ok"]
    ELSE [map |-> map, result |-> "NotRegistered"]

\* Mutant of Lookup: the match is on the key code alone.
Lookup_IgnoreModifiers(map, key) ==
    LET hit == {h \in DOMAIN map : h.key_code = key.key_code}
    IN  IF hit # {} THEN <<map[CHOOSE h \in hit : TRUE]>> ELSE <<>>

\* hotkey_map.get_mut(&key) of the dispatcher: <<callback>> is Some(callback),
\* <<>> is None.
Lookup(map, key) == IF key \in DOMAIN map THEN <<map[key]>> ELSE <<>>

\* ------------------------------------------------------------ model inputs
\* The keys of the modelled keyboard as <<scanCode, flags, vkCode>>.
KeyA == <<\h1E, 0, \h41>>
ControlLeft == <<\h1D, 0, \hA2>>
\* KeyA from a driver that reports a virtual key and no scan code.
KeyANoScanCode == <<0, 0, \h41>>
\* A scan code parse_scan_code does not know.
Unrecognised == <<\h5C, 0, 0>>

\* A native event: <<code, wparam, scanCode, flags, vkCode>>.
Native(code, wparam, key) == <<code, wparam, key[1], key[2], key[3]>>

\* The native events of Spec. KeyA and ControlLeft go down and up with code
\* HC_ACTION (0); the other events are a system key-down without scan code, a
\* system key-up of the unknown scan code, a message that is no key message
\* (wparam 0) and a key-down with a negative code.
NativeInputs ==
    { Native(0, w, k) : w \in {WM_KEYDOWN, WM_KEYUP}, k \in {KeyA, ControlLeft} }
    \cup { Native(0, WM_SYSKEYDOWN, KeyANoScanCode),
           Native(0, WM_SYSKEYUP, Unrecognised),
           Native(0, 0, KeyA),
           Native(-1, WM_KEYDOWN, KeyA) }

\* Further modifier keys: both Control keys and one key of each other flag.
ControlRight == <<\h1D, 1, \hA3>>
ShiftRight == <<\h36, 0, \hA1>>
AltLeft == <<\h38, 0, \hA4>>
MetaRight == <<\h5C, 1, \h5C>>
ModifierKeys == {ControlLeft, ControlRight, ShiftRight, AltLeft, MetaRight}

\* The native events of SpecKeys: KeyA and the modifier keys go down and up.
KeyNativeInputs ==
    { Native(0, w, k) : w \in {WM_KEYDOWN, WM_KEYUP}, k \in ModifierKeys \cup {KeyA} }

\* The arguments of parse_scan_code: every scan code of the table and three
\* values outside it.
ScanCodeInputs == DOMAIN ScanCodeTable \cup {0, \h005C, \hE0FF}

\* What MapVirtualKeyW(scan_code, MAPVK_VSC_TO_VK_EX) can return: no
\* translation or a virtual key.
VirtualKeyResults == {0, \h41}

\* What MapVirtualKeyW(virtual_key_code, MAPVK_VK_TO_CHAR) can return: no
\* translation, a character, a dead key (top bit set), the top bit alone, a
\* surrogate and a value above the last code point.
MappedCharResults ==
    {U32(0, 0), U32(0, \h61), U32(1, \h60), U32(1, 0), U32(0, \hD800),
     U32(0, \h110000)}

\* The settings a splits component is created with, the lengths of the run
\* and the current split indices of the timer: None before the start, n once
\* the run has ended.
SettingsInputs ==
    [visual_split_count : 0..MaxVisual, split_preview_count : 0..MaxPreview,
     always_show_last_split : BOOLEAN, fill_with_blank_space : BOOLEAN]
RunLengths == 1..MaxSegments
TimerIndices(n) == {<<>>} \cup {<<i>> : i \in 0..n}

\* The hotkeys and callbacks the application registers.
RegHotkeys == {Hotkey("KeyA", {CONTROL}), Hotkey("KeyA", {})}
\* Every register call passes a closure of its own: the n-th call of the
\* application passes callback n.
Callbacks == 1..MaxOps

\* --------------------------------------------------------------- variables
VARIABLES
    appPc,        \* application thread: where it is in Hook::new / register / ...
    appOp,        \* the register / unregister call in progress or last made
    newResult,    \* what Hook::new returned
    lastResult,   \* what the last register / unregister returned
    thread_id,    \* Hook.thread_id
    allocated,    \* what Hook::new has created: registry, channels
    hotkeys,      \* the registry HashMap<Hotkey, Callback>
    mutex,        \* holder of the registry Mutex
    initialized,  \* messages in the one-shot initialisation channel
    events,       \* Hotkeys in the events channel
    posted,       \* messages posted to the engine thread's message queue
    engPc,        \* engine thread position
    engRet,       \* what the engine thread's closure returned
    hook,         \* the engine closure's local `hook`
    nativeHook,   \* whether the operating system has the hook installed
    state,        \* the thread local STATE: <<>> is None, <<s>> is Some(s)
    dispPc,       \* dispatcher thread position
    dispKey,      \* the loop variable `key`: the Hotkey being dispatched
    active,       \* callbacks being executed
    sentCount,    \* Hotkeys sent on the events channel so far
    swallowed,    \* native events delivered minus calls of CallNextHookEx
    opCount,      \* register / unregister calls made so far
    held,         \* history: keys the hook saw go down and not up, per hold
    track,        \* history: per registered hotkey, transitions and invocations
    waits,        \* history: callback invocations the pending call has waited for
    lookup,       \* the last call of parse_scan_code: its argument and result
    resolution,   \* the last call of Hook::try_resolve: argument, locals, result
    settings,     \* splits Component.settings (the fields update_state reads)
    run_len,      \* timer.run().len() of the Snapshots given to update_state
    current_split_index,  \* splits Component.current_split_index
    scroll_offset,        \* splits Component.scroll_offset
    splits,       \* state.splits as the last update_state left it
    pending       \* history: scroll_up / scroll_down calls since update_state

appVars == <<appPc, appOp, newResult, lastResult, thread_id, allocated>>
regVars == <<hotkeys, mutex>>
chanVars == <<initialized, events, posted>>
engVars == <<engPc, engRet, hook, nativeHook, state>>
dispVars == <<dispPc, dispKey, active>>
histVars == <<sentCount, swallowed, opCount, held, track, waits>>
\* The variables of the operations that do not touch the running Hook; the
\* actions of the Hook leave them alone.
tableVars == <<lookup, resolution>>
splitsVars == <<settings, run_len, current_split_index, scroll_offset, splits, pending>>
otherVars == <<tableVars, splitsVars>>
vars == <<appVars, regVars, chanVars, engVars, dispVars, histVars, otherVars>>

EmptyMap == [h \in {} |-> None]

\* Placeholder of a Hotkey-typed variable that holds no Hotkey yet.
NoHotkey == Hotkey(None, {})

\* lookup and resolution before any call.
NoCall == [called |-> FALSE]

\* appOp while no register / unregister call is in progress.
NoOp == [op |-> None, hotkey |-> NoHotkey, callback |-> <<>>]

Init ==
    /\ appPc = "start"
    /\ appOp = NoOp
    /\ newResult = None
    /\ lastResult = None
    /\ thread_id = None
    /\ allocated = {}
    /\ hotkeys = EmptyMap
    /\ mutex = "free"
    /\ initialized = <<>>
    /\ events = <<>>
    /\ posted = <<>>
    /\ engPc = "unspawned"
    /\ engRet = None
    /\ hook = None
    /\ nativeHook = FALSE
    /\ state = <<>>
    /\ dispPc = "unspawned"
    /\ dispKey = NoHotkey
    /\ active = <<>>
    /\ sentCount = 0
    /\ swallowed = 0
    /\ opCount = 0
    /\ held = EmptyMap
    /\ track = EmptyMap
    /\ waits = 0
    /\ lookup = NoCall
    /\ resolution = NoCall
    /\ settings = DefaultSettings
    /\ run_len = 1
    /\ current_split_index = <<>>
    /\ scroll_offset = 0
    /\ splits = <<>>
    /\ pending = 0

\* The engine thread has ended: its closure returned, which drops the
\* initialisation sender, the thread local STATE and with it the events sender.
EngineEnded == engPc = "exited"

\* The events sender exists from the creation of the channel to the end of
\* the engine thread.
EventsTxAlive == engPc \in {"install", "init_state", "loop", "unhook"}

\* The events receiver is dropped when the dispatcher thread ends, by a closed
\* channel or by a panic that unwinds it.
EventsRxGone == dispPc \in {"exited", "panicked"}

\* Hotkeys equal to h that are sent and not yet looked up by the dispatcher.
InFlight(h) ==
    Cardinality({i \in 1..Len(events) : events[i] = h})
        + (IF dispPc = "lock" /\ dispKey = h THEN 1 ELSE 0)

\* ------------------------------------------------------ application thread
\* Mutant of HookNew: the preference is checked after the registry, the
\* channels and the threads are created.
HookNew_CheckLast(consume) ==
    /\ appPc = "start"
    /\ allocated' = {"hotkeys", "initialized", "events"}
    /\ engPc' = "install"
    /\ dispPc' = "recv"
    /\ IF consume = "MustConsume"
       THEN newResult' = "UnmatchedPreference" /\ appPc' = "failed"
       ELSE appPc' = "new_recv" /\ UNCHANGED newResult
    /\ UNCHANGED <<appOp, lastResult, thread_id, regVars, chanVars, engRet, hook,
                   nativeHook, state, dispKey, active, histVars>>
    /\ UNCHANGED otherVars

\* Hook::new up to the blocking receive: the preference check, the registry,
\* the two channels and the two spawned threads.
HookNew(consume) ==
    /\ appPc = "start"
    /\ IF consume = "MustConsume"
       THEN /\ newResult' = "UnmatchedPreference"
            /\ appPc' = "failed"
            /\ UNCHANGED <<allocated, engPc, dispPc>>
       ELSE /\ allocated' = {"hotkeys", "initialized", "events"}
            /\ engPc' = "install"
            /\ dispPc' = "recv"
            /\ appPc' = "new_recv"
            /\ UNCHANGED newResult
    /\ UNCHANGED <<appOp, lastResult, thread_id, regVars, chanVars, engRet, hook,
                   nativeHook, state, dispKey, active, histVars>>
    /\ UNCHANGED otherVars

\* initialized_rx.recv() of Hook::new and its return.
HookNewRecv ==
    /\ appPc = "new_recv"
    /\ initialized # <<>> \/ EngineEnded
    /\ IF initialized # <<>>
       THEN LET msg == Head(initialized)
            IN  /\ initialized' = Tail(initialized)
                /\ IF msg[1] = "Ok"
                   THEN /\ thread_id' = msg[2]
                        /\ newResult' = "Ok"
                        /\ appPc' = "ready"
                   ELSE /\ newResult' = msg[2]
                        /\ appPc' = "failed"
                        /\ UNCHANGED thread_id
       ELSE /\ newResult' = "ThreadStopped"
            /\ appPc' = "failed"
            /\ UNCHANGED <<initialized, thread_id>>
    /\ UNCHANGED <<appOp, lastResult, allocated, regVars, events, posted, engVars,
                   dispVars, histVars>>
    /\ UNCHANGED otherVars

\* The application calls register(hotkey, callback) or unregister(hotkey) and
\* reaches hotkeys.lock().
Call(op, hotkey) ==
    /\ appPc = "ready"
    /\ opCount < MaxOps
    /\ opCount' = opCount + 1
    /\ appOp' = [op |-> op, hotkey |-> hotkey,
                 callback |-> IF op = "register" THEN <<opCount + 1>> ELSE <<>>]
    /\ appPc' = "lock"
    /\ lastResult' = None
    /\ UNCHANGED <<newResult, thread_id, allocated, regVars, chanVars,
                   engVars, dispVars, sentCount, swallowed, held, track>>
    /\ waits' = IF dispPc = "callback" THEN 1 ELSE 0
    /\ UNCHANGED otherVars

\* Mutant of AcquireLock: lock() returns a guard whoever holds the mutex.
AcquireLock_NoWait ==
    /\ appPc = "lock"
    /\ mutex' = "app"
    /\ appPc' = "locked"
    /\ UNCHANGED <<appOp, newResult, lastResult, thread_id, allocated, hotkeys,
                   chanVars, engVars, dispVars, histVars>>
    /\ UNCHANGED otherVars

\* self.hotkeys.lock() of register / unregister: blocks while the dispatcher
\* holds the mutex.
AcquireLock ==
    /\ appPc = "lock"
    /\ mutex = "free"
    /\ mutex' = "app"
    /\ appPc' = "locked"
    /\ UNCHANGED <<appOp, newResult, lastResult, thread_id, allocated, hotkeys,
                   chanVars, engVars, dispVars, histVars>>
    /\ UNCHANGED otherVars

\* self.hotkeys.lock().unwrap() of register / unregister on a poisoned mutex:
\* lock() returns Err(PoisonError) and unwrap panics in the application thread.
AcquireLockPoisoned ==
    /\ appPc = "lock"
    /\ mutex = "poisoned"
    /\ appPc' = "panicked"
    /\ lastResult' = "PoisonError"
    /\ UNCHANGED <<appOp, newResult, thread_id, allocated, regVars, chanVars,
                   engVars, dispVars, histVars>>
    /\ UNCHANGED otherVars

\* Hook::register under the lock, the release of the lock and the return.
\* A registration made while no equal Hotkey is in flight starts the history
\* record of that hotkey.
register ==
    /\ appPc = "locked"
    /\ appOp.op = "register"
    /\ LET r == RegisterMap(hotkeys, appOp.hotkey, appOp.callback[1])
       IN  /\ hotkeys' = r.map
           /\ lastResult' = r.result
           /\ track' = IF r.result = "Ok" /\ InFlight(appOp.hotkey) = 0
                       THEN [h \in DOMAIN track \cup {appOp.hotkey} |->
                                IF h = appOp.hotkey THEN [trans |-> 0, inv |-> 0]
                                ELSE track[h]]
                       ELSE track
    /\ mutex' = "free"
    /\ appPc' = "ready"
    /\ appOp' = NoOp
    /\ UNCHANGED <<newResult, thread_id, allocated, chanVars, engVars,
                   dispVars, sentCount, swallowed, opCount, held>>
    /\ waits' = 0
    /\ UNCHANGED otherVars

\* Hook::unregister under the lock, the release of the lock and the return.
unregister ==
    /\ appPc = "locked"
    /\ appOp.op = "unregister"
    /\ LET r == UnregisterMap(hotkeys, appOp.hotkey)
       IN  /\ hotkeys' = r.map
           /\ lastResult' = r.result
           /\ track' = [h \in DOMAIN track \cap DOMAIN r.map |-> track[h]]
    /\ mutex' = "free"
    /\ appPc' = "ready"
    /\ appOp' = NoOp
    /\ UNCHANGED <<newResult, thread_id, allocated, chanVars, engVars,
                   dispVars, sentCount, swallowed, opCount, held>>
    /\ waits' = 0
    /\ UNCHANGED otherVars

\* Mutant of Drop: the destruction also clears the thread local State.
Drop_ClearsState ==
    /\ appPc = "ready"
    /\ appPc' = "dropped"
    /\ posted' = IF EngineEnded THEN posted ELSE Append(posted, MSG_EXIT)
    /\ state' = <<>>
    /\ UNCHANGED <<appOp, newResult, lastResult, thread_id, allocated, regVars,
                   initialized, events, engPc, engRet, hook, nativeHook, dispVars,
                   histVars>>
    /\ UNCHANGED otherVars

\* impl Drop for Hook: PostThreadMessageW(self.thread_id, MSG_EXIT, 0, 0).
\* The post fails, and nothing is queued, when that thread has ended.
Drop ==
    /\ appPc = "ready"
    /\ appPc' = "dropped"
    /\ posted' = IF EngineEnded THEN posted ELSE Append(posted, MSG_EXIT)
    /\ UNCHANGED <<appOp, newResult, lastResult, thread_id, allocated, regVars,
                   initialized, events, engVars, dispVars, histVars>>
    /\ UNCHANGED otherVars

\* ------------------------------------------------------------ engine thread
\* Mutant of EngInstall: the thread id is sent whether or not the hook is null.
EngInstall_AlwaysOk(ok) ==
    /\ engPc = "install"
    /\ hook' = IF ok THEN "hhook" ELSE "null"
    /\ nativeHook' = ok
    /\ initialized' = Append(initialized, <<"Ok", "engine">>)
    /\ engPc' = "init_state"
    /\ UNCHANGED <<appVars, regVars, events, posted, engRet, state, dispVars, histVars>>
    /\ UNCHANGED otherVars

\* SetWindowsHookExW and the message on the initialisation channel. ok is
\* whether the operating system installs the hook.
EngInstall(ok) ==
    /\ engPc = "install"
    /\ hook' = IF ok THEN "hhook" ELSE "null"
    /\ nativeHook' = ok
    /\ IF appPc = "new_recv"
       THEN /\ initialized' = Append(initialized,
                                IF ok THEN <<"Ok", "engine">>
                                      ELSE <<"Err", "WindowsHook">>)
            /\ engPc' = "init_state"
            /\ UNCHANGED engRet
       ELSE /\ engPc' = "exited"
            /\ engRet' = "ThreadStopped"
            /\ UNCHANGED initialized
    /\ UNCHANGED <<appVars, regVars, events, posted, state, dispVars, histVars>>
    /\ UNCHANGED otherVars

\* Mutant of EngInitState: the loop is entered without storing the State.
EngInitState_NoStore ==
    /\ engPc = "init_state"
    /\ engPc' = "loop"
    /\ UNCHANGED <<appVars, regVars, chanVars, engRet, hook, nativeHook, state,
                   dispVars, histVars>>
    /\ UNCHANGED otherVars

\* *state.borrow_mut() = Some(State { .. }) and the entry into the loop.
EngInitState ==
    /\ engPc = "init_state"
    /\ state' = << [hook |-> hook, modifiers |-> {},
                    key_state |-> [i \in 0..31 |-> 0]] >>
    /\ engPc' = "loop"
    /\ UNCHANGED <<appVars, regVars, chanVars, engRet, hook, nativeHook, dispVars,
                   histVars>>
    /\ UNCHANGED otherVars

\* Mutant of EngMessageLoopError: the error is noted and the loop goes on.
EngMessageLoopError_LoopGoesOn ==
    /\ engPc = "loop"
    /\ engRet # "MessageLoop"
    /\ engRet' = "MessageLoop"
    /\ UNCHANGED <<appVars, regVars, chanVars, engPc, hook, nativeHook, state,
                   dispVars, histVars>>
    /\ UNCHANGED otherVars

\* GetMessageW returns a negative value: the closure returns Err(MessageLoop)
\* without unhooking.
EngMessageLoopError ==
    /\ engPc = "loop"
    /\ engPc' = "exited"
    /\ engRet' = "MessageLoop"
    /\ state' = <<>>
    /\ held' = EmptyMap
    /\ UNCHANGED <<appVars, regVars, chanVars, hook, nativeHook, dispVars, sentCount,
                   swallowed, opCount, track, waits>>
    /\ UNCHANGED otherVars

\* Mutant of EngExitMessage: the loop takes MSG_EXIT and goes on (continue
\* instead of break).
EngExitMessage_NoBreak ==
    /\ engPc = "loop"
    /\ posted # <<>>
    /\ Head(posted) = MSG_EXIT
    /\ posted' = Tail(posted)
    /\ UNCHANGED <<appVars, regVars, initialized, events, engVars, dispVars, histVars>>
    /\ UNCHANGED otherVars

\* GetMessageW returns the posted MSG_EXIT: break.
EngExitMessage ==
    /\ engPc = "loop"
    /\ posted # <<>>
    /\ Head(posted) = MSG_EXIT
    /\ posted' = Tail(posted)
    /\ engPc' = "unhook"
    /\ UNCHANGED <<appVars, regVars, initialized, events, engRet, hook, nativeHook,
                   state, dispVars, histVars>>
    /\ UNCHANGED otherVars

\* UnhookWindowsHookEx(hook) and the return of Ok(()).
EngUnhook ==
    /\ engPc = "unhook"
    /\ nativeHook' = IF hook = "hhook" THEN FALSE ELSE nativeHook
    /\ engPc' = "exited"
    /\ engRet' = "Ok"
    /\ state' = <<>>
    /\ held' = EmptyMap
    /\ UNCHANGED <<appVars, regVars, chanVars, hook, dispVars, sentCount, swallowed,
                   opCount, track, waits>>
    /\ UNCHANGED otherVars

\* Mutant of callback_proc: the send waits while the dispatcher is busy with
\* a callback (a rendezvous instead of an unbounded queue).
callback_proc_WaitsForDispatcher(code, wparam, scanCode, flags, vkCode) ==
    /\ dispPc # "callback"
    /\ engPc = "loop"
    /\ nativeHook
    /\ IF state = <<>>
       THEN /\ engPc' = "panicked"
            /\ swallowed' = swallowed + 1
            /\ UNCHANGED <<state, events, sentCount, held, track>>
       ELSE LET r == ProcessEvent(state[1], code, wparam, scanCode, flags, vkCode)
                key_code == parse_scan_code(ScanCodeOf(scanCode, flags, vkCode))
                isDown == code >= 0 /\ key_code # None
                            /\ wparam \in {WM_KEYDOWN, WM_SYSKEYDOWN}
                isUp == code >= 0 /\ key_code # None
                            /\ wparam \in {WM_KEYUP, WM_SYSKEYUP}
            IN  /\ sentCount + Len(r.sent) <= MaxSent
                /\ IF r.sent # <<>> /\ EventsRxGone
                   THEN /\ engPc' = "panicked"
                        /\ swallowed' = swallowed + 1
                        /\ UNCHANGED <<state, events, sentCount, held, track>>
                   ELSE /\ state' = <<r.st>>
                        /\ events' = events \o r.sent
                        /\ sentCount' = sentCount + Len(r.sent)
                        /\ swallowed' = swallowed + 1 - r.forwarded
                        /\ held' =
                             IF isDown
                             THEN [k \in DOMAIN held \cup {key_code} |->
                                     IF k # key_code THEN held[k]
                                     ELSE IF k \in DOMAIN held
                                     THEN [sent |-> held[k].sent + Len(r.sent),
                                           repeated |-> TRUE]
                                     ELSE [sent |-> Len(r.sent), repeated |-> FALSE]]
                             ELSE IF isUp
                             THEN [k \in DOMAIN held \ {key_code} |-> held[k]]
                             ELSE held
                        /\ track' = [h \in DOMAIN track |->
                                       IF  /\ isDown
                                           /\ key_code \notin DOMAIN held
                                           /\ h = Hotkey(key_code, state[1].modifiers)
                                       THEN [track[h] EXCEPT !.trans = @ + 1]
                                       ELSE track[h]]
                        /\ UNCHANGED engPc
    /\ UNCHANGED <<appVars, regVars, initialized, posted, engRet, hook, nativeHook,
                   dispVars, opCount, waits>>
    /\ UNCHANGED otherVars

\* callback_proc, called by the operating system on the engine thread from
\* inside GetMessageW while the hook is installed; it ends with CallNextHookEx.
\* It panics when STATE is None or when the events receiver is gone.
\* History: held records the keys for which a key-down was delivered and no
\* key-up since, with the Hotkeys sent during the hold and whether a further
\* key-down arrived during it; track counts, per registered hotkey (k, M), the
\* transitions of k from up to down delivered while the tracked modifiers are M.
callback_proc(code, wparam, scanCode, flags, vkCode) ==
    /\ engPc = "loop"
    /\ nativeHook
    /\ IF state = <<>>
       THEN /\ engPc' = "panicked"
            /\ swallowed' = swallowed + 1
            /\ UNCHANGED <<state, events, sentCount, held, track>>
       ELSE LET r == ProcessEvent(state[1], code, wparam, scanCode, flags, vkCode)
                key_code == parse_scan_code(ScanCodeOf(scanCode, flags, vkCode))
                isDown == code >= 0 /\ key_code # None
                            /\ wparam \in {WM_KEYDOWN, WM_SYSKEYDOWN}
                isUp == code >= 0 /\ key_code # None
                            /\ wparam \in {WM_KEYUP, WM_SYSKEYUP}
            IN  /\ sentCount + Len(r.sent) <= MaxSent
                /\ IF r.sent # <<>> /\ EventsRxGone
                   THEN /\ engPc' = "panicked"
                        /\ swallowed' = swallowed + 1
                        /\ UNCHANGED <<state, events, sentCount, held, track>>
                   ELSE /\ state' = <<r.st>>
                        /\ events' = events \o r.sent
                        /\ sentCount' = sentCount + Len(r.sent)
                        /\ swallowed' = swallowed + 1 - r.forwarded
                        /\ held' =
                             IF isDown
                             THEN [k \in DOMAIN held \cup {key_code} |->
                                     IF k # key_code THEN held[k]
                                     ELSE IF k \in DOMAIN held
                                     THEN [sent |-> held[k].sent + Len(r.sent),
                                           repeated |-> TRUE]
                                     ELSE [sent |-> Len(r.sent), repeated |-> FALSE]]
                             ELSE IF isUp
                             THEN [k \in DOMAIN held \ {key_code} |-> held[k]]
                             ELSE held
                        /\ track' = [h \in DOMAIN track |->
                                       IF  /\ isDown
                                           /\ key_code \notin DOMAIN held
                                           /\ h = Hotkey(key_code, state[1].modifiers)
                                       THEN [track[h] EXCEPT !.trans = @ + 1]
                                       ELSE track[h]]
                        /\ UNCHANGED engPc
    /\ UNCHANGED <<appVars, regVars, initialized, posted, engRet, hook, nativeHook,
                   dispVars, opCount, waits>>
    /\ UNCHANGED otherVars

\* -------------------------------------------------------- dispatcher thread
\* Mutant of DispRecv: the receive returns the newest Hotkey of the channel.
DispRecv_Newest ==
    /\ dispPc = "recv"
    /\ events # <<>>
    /\ dispKey' = events[Len(events)]
    /\ events' = SubSeq(events, 1, Len(events) - 1)
    /\ dispPc' = "lock"
    /\ UNCHANGED <<appVars, regVars, initialized, posted, engVars, active, histVars>>
    /\ UNCHANGED otherVars

\* events_rx.recv() returns Ok(key).
DispRecv ==
    /\ dispPc = "recv"
    /\ events # <<>>
    /\ dispKey' = Head(events)
    /\ events' = Tail(events)
    /\ dispPc' = "lock"
    /\ UNCHANGED <<appVars, regVars, initialized, posted, engVars, active, histVars>>
    /\ UNCHANGED otherVars

\* Mutant of DispDisconnected: recv() reports the closure as soon as the
\* channel is empty, whether or not the sender still exists.
DispDisconnected_WhenEmpty ==
    /\ dispPc = "recv"
    /\ events = <<>>
    /\ dispPc' = "exited"
    /\ UNCHANGED <<appVars, regVars, chanVars, engVars, dispKey, active, histVars>>
    /\ UNCHANGED otherVars

\* events_rx.recv() returns Err: the channel is empty and its sender dropped.
DispDisconnected ==
    /\ dispPc = "recv"
    /\ events = <<>>
    /\ ~EventsTxAlive
    /\ dispPc' = "exited"
    /\ UNCHANGED <<appVars, regVars, chanVars, engVars, dispKey, active, histVars>>
    /\ UNCHANGED otherVars

\* Mutant of Dispatch: the callback is started without waiting for it and
\* without holding the lock.
Dispatch_NoWait ==
    /\ dispPc = "lock"
    /\ mutex = "free"
    /\ LET callback == Lookup(hotkeys, dispKey)
       IN  /\ active' = IF callback # <<>> THEN Append(active, callback[1]) ELSE active
           /\ track' = [h \in DOMAIN track |->
                           IF h = dispKey /\ callback # <<>>
                           THEN [track[h] EXCEPT !.inv = @ + 1]
                           ELSE track[h]]
    /\ dispPc' = "recv"
    /\ dispKey' = NoHotkey
    /\ UNCHANGED <<appVars, regVars, chanVars, engVars, sentCount, swallowed,
                   opCount, held, waits>>
    /\ UNCHANGED otherVars

\* hotkey_map.lock().unwrap().get_mut(&key): the lock is taken, and on a match
\* the callback is entered with the lock held; without a match the lock is
\* released at once and the loop goes on.
Dispatch ==
    /\ dispPc = "lock"
    /\ mutex = "free"
    /\ LET callback == Lookup(hotkeys, dispKey)
       IN  IF callback # <<>>
           THEN /\ mutex' = "dispatcher"
                /\ active' = Append(active, callback[1])
                /\ dispPc' = "callback"
                /\ UNCHANGED dispKey
                /\ track' = [h \in DOMAIN track |->
                                IF h = dispKey
                                THEN [track[h] EXCEPT !.inv = @ + 1]
                                ELSE track[h]]
                /\ waits' = IF appPc = "lock" THEN waits + 1 ELSE waits
           ELSE /\ dispPc' = "recv"
                /\ dispKey' = NoHotkey
                /\ UNCHANGED <<mutex, active, track, waits>>
    /\ UNCHANGED <<appVars, hotkeys, chanVars, engVars, sentCount,
                   swallowed, opCount, held>>
    /\ UNCHANGED otherVars

\* Mutant of CallbackReturn: the loop goes on without dropping the guard.
CallbackReturn_KeepsLock ==
    /\ dispPc = "callback"
    /\ active' = SubSeq(active, 1, Len(active) - 1)
    /\ dispPc' = "recv"
    /\ dispKey' = NoHotkey
    /\ UNCHANGED <<appVars, regVars, chanVars, engVars, histVars>>
    /\ UNCHANGED otherVars

\* callback() returns: the lock guard is dropped and the loop goes on.
CallbackReturn ==
    /\ dispPc = "callback"
    /\ active' = SubSeq(active, 1, Len(active) - 1)
    /\ mutex' = "free"
    /\ dispPc' = "recv"
    /\ dispKey' = NoHotkey
    /\ UNCHANGED <<appVars, hotkeys, chanVars, engVars, histVars>>
    /\ UNCHANGED otherVars

\* callback() panics: the dispatcher thread unwinds, the MutexGuard is dropped
\* during the unwinding, which releases and poisons the mutex, and the thread
\* ends, which drops the events receiver.
CallbackPanic ==
    /\ dispPc = "callback"
    /\ active' = SubSeq(active, 1, Len(active) - 1)
    /\ mutex' = "poisoned"
    /\ dispPc' = "panicked"
    /\ dispKey' = NoHotkey
    /\ UNCHANGED <<appVars, hotkeys, chanVars, engVars, histVars>>
    /\ UNCHANGED otherVars

\* Mutant of CallbackReenters: the Mutex is reentrant, the inner lock() is
\* granted, and dropping the inner guard frees the mutex.
CallbackReenters_Reentrant ==
    /\ dispPc = "callback"
    /\ dispPc' = "reentered"
    /\ mutex' = "free"
    /\ UNCHANGED <<appVars, hotkeys, chanVars, engVars, dispKey, active, histVars>>
    /\ UNCHANGED otherVars

\* The running callback calls register or unregister on its own Hook: that
\* call reaches self.hotkeys.lock() on the dispatcher thread, which holds the
\* guard of the same Mutex, and does not return.
CallbackReenters ==
    /\ dispPc = "callback"
    /\ dispPc' = "reentered"
    /\ UNCHANGED <<appVars, regVars, chanVars, engVars, dispKey, active, histVars>>
    /\ UNCHANGED otherVars

\* ---------------------------------------------------------- pure functions
\* A call of parse_scan_code(value).
ParseScanCode(value) ==
    /\ lookup' = [called |-> TRUE, value |-> value,
                  key_code |-> parse_scan_code(value)]
    /\ UNCHANGED <<appVars, regVars, chanVars, engVars, dispVars, histVars,
                   resolution, splitsVars>>

\* A call of Hook::try_resolve(key_code) on an existing Hook, with the values
\* the two calls of MapVirtualKeyW return. The function reads and writes no
\* state of the Hook, so a behaviour makes one call of it.
TryResolve(key_code, virtual_key_code, mapped_char) ==
    /\ appPc = "ready"
    /\ resolution = NoCall
    /\ LET r == ResolveKey(key_code, virtual_key_code, mapped_char)
       IN  resolution' = [called |-> TRUE, key_code |-> key_code,
                          scan_code |-> r.scan_code,
                          virtual_key_code |-> virtual_key_code,
                          mapped_char |-> mapped_char,
                          result |-> r.result]
    /\ UNCHANGED <<appVars, regVars, chanVars, engVars, dispVars, histVars,
                   lookup, splitsVars>>

\* -------------------------------------------------------- splits component
\* Component::scroll_up: scroll_offset.saturating_sub(1). The offset stays
\* far from isize::MIN, so the subtraction never saturates here.
scroll_up ==
    /\ pending < MaxScroll
    /\ scroll_offset' = saturating_sub(scroll_offset, 1)
    /\ pending' = pending + 1
    /\ UNCHANGED <<appVars, regVars, chanVars, engVars, dispVars, histVars,
                   tableVars, settings, run_len, current_split_index, splits>>

\* Component::scroll_down: scroll_offset.saturating_add(1).
scroll_down ==
    /\ pending < MaxScroll
    /\ scroll_offset' = saturating_add(scroll_offset, 1)
    /\ pending' = pending + 1
    /\ UNCHANGED <<appVars, regVars, chanVars, engVars, dispVars, histVars,
                   tableVars, settings, run_len, current_split_index, splits>>

\* Component::update_state with a Snapshot whose current split index is
\* current_split.
update_state(current_split) ==
    /\ LET r == UpdateState(settings, run_len, current_split_index, scroll_offset,
                            current_split)
       IN  /\ current_split_index' = r.current_split_index
           /\ scroll_offset' = r.scroll_offset
           /\ splits' = r.splits
    /\ pending' = 0
    /\ UNCHANGED <<appVars, regVars, chanVars, engVars, dispVars, histVars,
                   tableVars, settings, run_len>>

\* ------------------------------------------------------------ specification
Next ==
    \/ \E consume \in ConsumePreference : HookNew(consume)
    \/ HookNewRecv
    \/ \E op \in {"register", "unregister"}, h \in RegHotkeys : Call(op, h)
    \/ AcquireLock
    \/ register
    \/ unregister
    \/ Drop
    \/ \E ok \in BOOLEAN : EngInstall(ok)
    \/ EngInitState
    \/ EngMessageLoopError
    \/ EngExitMessage
    \/ EngUnhook
    \/ \E e \in NativeInputs : callback_proc(e[1], e[2], e[3], e[4], e[5])
    \/ DispRecv
    \/ DispDisconnected
    \/ Dispatch
    \/ CallbackReturn

Spec == Init /\ [][Next]_vars

\* The running hook under a keyboard with modifier keys: the application
\* creates the Hook, registers nothing and keeps the Hook alive, and the
\* message loop reports no error.
NextKeys ==
    \/ \E consume \in ConsumePreference : HookNew(consume)
    \/ HookNewRecv
    \/ \E ok \in BOOLEAN : EngInstall(ok)
    \/ EngInitState
    \/ \E e \in KeyNativeInputs : callback_proc(e[1], e[2], e[3], e[4], e[5])
    \/ DispRecv
    \/ Dispatch

SpecKeys == Init /\ [][NextKeys]_vars

\* The Hook with callbacks that may panic.
NextPanic ==
    \/ Next
    \/ CallbackPanic
    \/ AcquireLockPoisoned

SpecPanic == Init /\ [][NextPanic]_vars

\* The Hook with callbacks that may call register or unregister on it.
NextReenter ==
    \/ Next
    \/ CallbackReenters

SpecReenter == Init /\ [][NextReenter]_vars

\* parse_scan_code called on the scan codes of the table and on others.
NextParse == \E value \in ScanCodeInputs : ParseScanCode(value)

SpecParse == Init /\ [][NextParse]_vars

\* Hook::try_resolve called on a Hook that Hook::new returned, for every
\* KeyCode and every outcome of the two translations.
NextResolve ==
    \/ \E consume \in ConsumePreference : HookNew(consume)
    \/ HookNewRecv
    \/ \E ok \in BOOLEAN : EngInstall(ok)
    \/ EngInitState
    \/ \E key_code \in KeyCode, virtual_key_code \in VirtualKeyResults,
          mapped_char \in MappedCharResults :
            TryResolve(key_code, virtual_key_code, mapped_char)

SpecResolve == Init /\ [][NextResolve]_vars

\* The splits component: created with any of the settings for a timer with a
\* run of one to MaxSegments segments (a Timer has no empty run), then
\* scrolled and updated in any order.
InitSplits ==
    /\ appPc = "start"
    /\ appOp = NoOp
    /\ newResult = None
    /\ lastResult = None
    /\ thread_id = None
    /\ allocated = {}
    /\ hotkeys = EmptyMap
    /\ mutex = "free"
    /\ initialized = <<>>
    /\ events = <<>>
    /\ posted = <<>>
    /\ engPc = "unspawned"
    /\ engRet = None
    /\ hook = None
    /\ nativeHook = FALSE
    /\ state = <<>>
    /\ dispPc = "unspawned"
    /\ dispKey = NoHotkey
    /\ active = <<>>
    /\ sentCount = 0
    /\ swallowed = 0
    /\ opCount = 0
    /\ held = EmptyMap
    /\ track = EmptyMap
    /\ waits = 0
    /\ lookup = NoCall
    /\ resolution = NoCall
    /\ settings \in SettingsInputs
    /\ run_len \in RunLengths
    /\ current_split_index = <<>>
    /\ scroll_offset = 0
    /\ splits = <<>>
    /\ pending = 0

NextSplits ==
    \/ scroll_up
    \/ scroll_down
    \/ \E current_split \in TimerIndices(run_len) : update_state(current_split)

SpecSplits == InitSplits /\ [][NextSplits]_vars

\* Every thread that can take a step eventually takes it: the operating
\* system schedules the three threads, GetMessageW returns a posted message,
\* and a callback returns. Native events and errors of the message loop are
\* up to the environment and carry no fairness.
Fairness ==
    /\ WF_vars(HookNewRecv)
    /\ WF_vars(AcquireLock)
    /\ WF_vars(register)
    /\ WF_vars(unregister)
    /\ WF_vars(\E ok \in BOOLEAN : EngInstall(ok))
    /\ WF_vars(EngInitState)
    /\ WF_vars(EngExitMessage)
    /\ WF_vars(EngUnhook)
    /\ WF_vars(DispRecv)
    /\ WF_vars(DispDisconnected)
    /\ WF_vars(Dispatch)
    /\ WF_vars(CallbackReturn)

FairSpec == Spec /\ Fairness

\* ---------------------------------------------------------------- claims
\* A step in which the dispatcher enters a callback.
Invokes == Len(active') > Len(active)

\* C1: the step of Hook::register that returns leaves the registry unchanged
\* and returns AlreadyRegistered when the Hotkey has an entry, and otherwise
\* adds exactly the entry (hotkey, callback) and returns Ok; and the callback a
\* matching event invokes is the one the registry binds to that Hotkey.
C1_RegisterNoReplace ==
    [][ /\ (appPc = "locked" /\ appOp.op = "register" /\ appPc' = "ready") =>
            IF appOp.hotkey \in DOMAIN hotkeys
            THEN lastResult' = "AlreadyRegistered" /\ hotkeys' = hotkeys
            ELSE /\ lastResult' = "Ok"
                 /\ DOMAIN hotkeys' = DOMAIN hotkeys \cup {appOp.hotkey}
                 /\ hotkeys'[appOp.hotkey] = appOp.callback[1]
                 /\ \A h \in DOMAIN hotkeys : hotkeys'[h] = hotkeys[h]
        /\ Invokes =>
            /\ dispKey \in DOMAIN hotkeys
            /\ active' = Append(active, hotkeys[dispKey])
      ]_vars

\* C1 witness: the second registration of a Hotkey was refused and a later
\* matching event runs the callback of the first registration.
C1_Witness ==
    /\ lastResult = "AlreadyRegistered"
    /\ opCount = 2
    /\ active = <<1>>
    /\ dispKey \in DOMAIN hotkeys
    /\ hotkeys[dispKey] = 1

C3_OneEventPerHold ==
    \A k \in DOMAIN held : held[k].sent = 1

\* C3 witness: a held key has received a repeated key-down.
C3_Witness ==
    \E k \in DOMAIN held : held[k].repeated /\ held[k].sent = 1

\* The keys of each Modifiers flag.
KeysOfModifier(m) ==
    CASE m = ALT -> {"AltLeft", "AltRight"}
      [] m = CONTROL -> {"ControlLeft", "ControlRight"}
      [] m = META -> {"MetaLeft", "MetaRight"}
      [] m = SHIFT -> {"ShiftLeft", "ShiftRight"}

\* C4: each Modifiers flag is set exactly when one of its keys is held.
C4_ModifiersTrackHeldKeys ==
    state # <<>> =>
        \A m \in ModifierFlags :
            (m \in state[1].modifiers) <=> (KeysOfModifier(m) \cap DOMAIN held # {})

\* C4 failing input: ControlLeft down, ControlRight down, ControlLeft up
\* leaves ControlRight held with the CONTROL flag cleared.
C4_BothControlsOneReleased ==
    ~(/\ state # <<>>
      /\ DOMAIN held = {"ControlRight"}
      /\ held["ControlRight"].sent = 1
      /\ CONTROL \notin state[1].modifiers
      /\ sentCount = 2)

\* C5: for a hotkey (k, M) registered while no equal Hotkey was in flight and
\* not unregistered since, the invocations of its callback plus the equal
\* Hotkeys still in flight equal the transitions of k from up to down that the
\* hook observed while the tracked modifiers were M: one invocation per such
\* transition, none for a repeat, a key-up or another modifier set.
C5_OneInvocationPerTransition ==
    \A h \in DOMAIN track :
        /\ h \in DOMAIN hotkeys
        /\ track[h].inv + InFlight(h) = track[h].trans

\* C5 witness: (KeyA, {CONTROL}) is registered, ControlLeft and KeyA went
\* down, KeyA repeated, and the callback has run once and returned.
C5_Witness ==
    /\ Hotkey("KeyA", {CONTROL}) \in DOMAIN track
    /\ track[Hotkey("KeyA", {CONTROL})] = [trans |-> 1, inv |-> 1]
    /\ "KeyA" \in DOMAIN held
    /\ held["KeyA"].repeated
    /\ dispPc = "recv"
    /\ events = <<>>

\* C6: the dispatcher's lookup step enters the callback registered under
\* exactly the received (KeyCode, Modifiers) when there is one; otherwise it
\* invokes nothing, leaves registry and lock alone and goes back to receive.
C6_DispatchExactMatch ==
    [][ (dispPc = "lock" /\ dispPc' # "lock") =>
            IF dispKey \in DOMAIN hotkeys
            THEN /\ active' = Append(active, hotkeys[dispKey])
                 /\ dispPc' = "callback"
                 /\ hotkeys' = hotkeys
            ELSE /\ active' = active
                 /\ hotkeys' = hotkeys
                 /\ mutex' = mutex
                 /\ dispPc' = "recv"
      ]_vars

\* C6 witness: the dispatcher discarded (ControlLeft, {}), which no one can
\* have registered, and is running the callback of the event after it.
C6_Witness ==
    /\ dispPc = "callback"
    /\ sentCount = 2
    /\ events = <<>>
    /\ dispKey.key_code = "KeyA"
    /\ "ControlLeft" \in DOMAIN held

\* C7: a callback is entered only by the dispatcher's lookup step for the
\* Hotkey it holds, one callback per step and only while no callback is
\* running; a running callback ends before the next one starts.
C7_SerialInvocations ==
    [][ active' # active =>
            \/ /\ active = <<>>
               /\ Len(active') = 1
               /\ dispPc = "lock"
               /\ dispPc' = "callback"
            \/ /\ Len(active) = 1
               /\ active' = <<>>
               /\ dispPc = "callback"
      ]_vars

\* C7 witness: a callback is running for the second time, while a
\* register / unregister call of the application waits for the lock.
C7_Witness ==
    /\ Len(active) = 1
    /\ dispKey \in DOMAIN track
    /\ track[dispKey].inv = 2
    /\ appPc = "lock"

\* C8: once the Hook is destroyed and both threads have ended, which is the
\* final state the claim promises, the native hook is uninstalled.
C8_DestroyedHookIsUninstalled ==
    (appPc = "dropped" /\ engPc = "exited" /\ dispPc = "exited") => ~nativeHook

\* The part of C8 that holds under FairSpec: after the destruction both
\* threads end.
C8_ThreadsEnd ==
    (appPc = "dropped") ~> (engPc = "exited" /\ dispPc = "exited")

\* C9 as stated: after the destruction of the Hook no callback is entered.
C9_NoInvocationAfterDrop ==
    [][ appPc = "dropped" => ~Invokes ]_vars

\* C9 amended: once the Hook is destroyed and the engine has taken the
\* shutdown message from its queue (or had ended before), no Hotkey is sent
\* any more, and once the dispatcher has exited no callback is entered.
C9_NoSendAfterShutdown ==
    [][ /\ (appPc = "dropped" /\ posted = <<>>) =>
            (sentCount' = sentCount /\ Len(events') <= Len(events))
        /\ dispPc = "exited" => ~Invokes
      ]_vars

\* C9 witness: a callback runs after the Hook was destroyed and the engine
\* thread has ended.
C9_Witness ==
    /\ appPc = "dropped"
    /\ engPc = "exited"
    /\ engRet = "Ok"
    /\ Len(active) = 1

\* C10: when Hook::new has returned UnmatchedPreference, no thread is
\* spawned, no channel or registry is created and no hook is installed.
C10_MustConsumeCreatesNothing ==
    newResult = "UnmatchedPreference" =>
        /\ engPc = "unspawned"
        /\ dispPc = "unspawned"
        /\ allocated = {}
        /\ hook = None
        /\ ~nativeHook
        /\ initialized = <<>>
        /\ thread_id = None

\* C10 witness: Hook::new has returned UnmatchedPreference.
C10_Witness ==
    newResult = "UnmatchedPreference" /\ appPc = "failed"

\* C11: Hook::new with a supported preference returns; it returns Ok, with
\* the engine's thread id, exactly when SetWindowsHookExW returned a hook, and
\* WindowsHook when it returned null; the engine sends one message on the
\* initialisation channel, at the installation and matching its outcome; and
\* a receive that finds the channel closed and empty returns ThreadStopped.
C11_NewReturnsInstallResult ==
    /\ [](appPc \in {"ready", "lock", "locked", "dropped"} =>
            (newResult = "Ok" /\ hook = "hhook" /\ thread_id = "engine"))
    /\ []((appPc = "failed" /\ newResult # "UnmatchedPreference") =>
            (newResult = "WindowsHook" /\ hook = "null" /\ thread_id = None))
    /\ [][ Len(initialized') > Len(initialized) =>
            /\ engPc = "install"
            /\ initialized = <<>>
            /\ initialized' = << IF hook' = "hhook" THEN <<"Ok", "engine">>
                                 ELSE <<"Err", "WindowsHook">> >> ]_vars
    /\ [][ (engPc = "install" /\ engPc' # "install") =>
            Len(initialized') = Len(initialized) + 1 ]_vars
    /\ [][ (appPc = "new_recv" /\ appPc' # "new_recv" /\ initialized = <<>>) =>
            newResult' = "ThreadStopped" ]_vars
    /\ (appPc = "new_recv") ~> (appPc \in {"ready", "failed"})

\* C11 witness: Hook::new has returned WindowsHook after the installation
\* failed and the one message was received.
C11_Witness ==
    /\ appPc = "failed"
    /\ newResult = "WindowsHook"
    /\ hook = "null"
    /\ initialized = <<>>

\* C12: after a callback panicked in the dispatcher the registry stays
\* usable: no register or unregister call of the application fails on the
\* lock, that is, no panic reaches the application thread.
C12_PanicLeavesRegistryUsable ==
    appPc # "panicked" /\ lastResult # "PoisonError"

\* C13: every native event delivered to callback_proc has been passed on
\* with CallNextHookEx: the number of delivered events that were not
\* forwarded is zero.
C13_EveryEventForwarded ==
    swallowed = 0

\* C14: in every state the hook can be in, callback_proc sends nothing for a
\* key-up event, and what it sends for any event is the one Hotkey of a
\* recognised key that was up, on a key-down message with code >= 0; and
\* every step that adds a Hotkey to the events channel turns the key-state
\* bit of that Hotkey's key from up to down.
C14_KeyUpNeverSends ==
    /\ [](state # <<>> =>
            \A e \in NativeInputs \cup KeyNativeInputs :
                LET r == ProcessEvent(state[1], e[1], e[2], e[3], e[4], e[5])
                    key_code == parse_scan_code(ScanCodeOf(e[3], e[4], e[5]))
                IN  /\ e[2] \in {WM_KEYUP, WM_SYSKEYUP} => r.sent = <<>>
                    /\ r.sent # <<>> =>
                        /\ e[1] >= 0
                        /\ e[2] \in {WM_KEYDOWN, WM_SYSKEYDOWN}
                        /\ key_code # None
                        /\ KeyIsUp(state[1].key_state, key_code)
                        /\ r.sent = <<Hotkey(key_code, state[1].modifiers)>>)
    /\ [][ Len(events') > Len(events) =>
            /\ state # <<>> /\ state' # <<>>
            /\ \E key_code \in KeyCode :
                /\ KeyIsUp(state[1].key_state, key_code)
                /\ state'[1].key_state = SetDown(state[1].key_state, key_code)
                /\ events' = Append(events, Hotkey(key_code, state[1].modifiers)) ]_vars

\* C14 witness: a key went down, which sent one Hotkey, and came up again,
\* which sent nothing: no key is down and one Hotkey was sent.
C14_Witness ==
    /\ engPc = "loop"
    /\ sentCount = 1
    /\ held = EmptyMap
    /\ state # <<>>
    /\ \A i \in DOMAIN state[1].key_state : state[1].key_state[i] = 0

\* C15: the events channel is a FIFO that loses, duplicates and reorders
\* nothing: every step leaves it alone, or appends the one Hotkey the engine
\* sends at its tail, or removes its head, which becomes the Hotkey the
\* dispatcher looks up next; and the dispatcher holds one Hotkey at a time,
\* taking the next one only after it is done with the one before.
C15_EventsFifo ==
    /\ [][ \/ events' = events /\ sentCount' = sentCount
           \/ /\ sentCount' = sentCount + 1
              /\ Len(events') = Len(events) + 1
              /\ SubSeq(events', 1, Len(events)) = events
              /\ dispKey' = dispKey
           \/ /\ events # <<>>
              /\ events' = Tail(events)
              /\ sentCount' = sentCount
              /\ dispPc = "recv" /\ dispKey = NoHotkey
              /\ dispPc' = "lock" /\ dispKey' = Head(events) ]_vars
    /\ [][ dispKey' # dispKey => (dispKey = NoHotkey \/ dispKey' = NoHotkey) ]_vars
    /\ [](dispPc \in {"lock", "callback"} <=> dispKey # NoHotkey)

\* C15 witness: two different Hotkeys were sent; the dispatcher holds the
\* first while the second waits in the channel.
C15_Witness ==
    /\ dispPc = "lock"
    /\ dispKey = Hotkey("ControlLeft", {})
    /\ events = <<Hotkey("KeyA", {CONTROL})>>

\* C16 as stated: the KeyCode parse_scan_code returned for a scan code of
\* the table is returned again by another lookup of that code, and no other
\* scan code of the table maps to it.
C16_UniqueStableKeyCode ==
    (lookup.called /\ lookup.value \in DOMAIN ScanCodeTable) =>
        /\ lookup.key_code # None
        /\ parse_scan_code(lookup.value) = lookup.key_code
        /\ \A other \in DOMAIN ScanCodeTable \ {lookup.value} :
                parse_scan_code(other) # lookup.key_code

\* The KeyCodes that two scan codes of the table map to.
AliasedKeyCodes ==
    {"ShiftRight", "Pause", "PrintScreen", "Lang1", "Lang2", "LaunchMail"}

\* C16 amended: every scan code of the table maps to one KeyCode, the same on
\* every lookup; six KeyCodes are each the image of exactly two scan codes,
\* and every other KeyCode of the table is the image of exactly one.
C16_StableKeyCodeWithAliases ==
    (lookup.called /\ lookup.value \in DOMAIN ScanCodeTable) =>
        /\ lookup.key_code \in KeyCode
        /\ parse_scan_code(lookup.value) = lookup.key_code
        /\ Cardinality({other \in DOMAIN ScanCodeTable :
                            parse_scan_code(other) = lookup.key_code})
            = IF lookup.key_code \in AliasedKeyCodes THEN 2 ELSE 1

\* C16 witness: the lookup of 0xE036 returned ShiftRight, which 0x0036 maps
\* to as well.
C16_Witness ==
    /\ lookup.called
    /\ lookup.value = \hE036
    /\ lookup.key_code = "ShiftRight"
    /\ parse_scan_code(\h0036) = "ShiftRight"

\* C17: for every KeyCode with a reverse mapping, the scan code try_resolve
\* looks up for it is a scan code that parse_scan_code maps back to that
\* KeyCode.
C17_ReverseThenForward ==
    (resolution.called /\ resolution.key_code \in DOMAIN ReverseScanCode) =>
        /\ resolution.scan_code = <<ReverseScanCode[resolution.key_code]>>
        /\ parse_scan_code(resolution.scan_code[1]) = resolution.key_code

\* C17 witness: try_resolve was called for KeyQ and used scan code 0x0010.
C17_Witness ==
    /\ resolution.called
    /\ resolution.key_code = "KeyQ"
    /\ resolution.scan_code = <<\h0010>>

\* C18: try_resolve returns Some exactly when the KeyCode has a reverse
\* mapping, both translations are non-zero and the character code without
\* its top bit is a character, and then the string is that one character;
\* in every other case it returns None.
C18_ResolveResult ==
    resolution.called =>
        LET char == MaskTopBit(resolution.mapped_char)
            valid == char <= \h10FFFF /\ (char < \hD800 \/ char > \hDFFF)
        IN  IF  /\ resolution.key_code \in DOMAIN ReverseScanCode
                /\ resolution.virtual_key_code # 0
                /\ (resolution.mapped_char.top # 0 \/ resolution.mapped_char.low # 0)
                /\ valid
            THEN resolution.result = << <<char>> >>
            ELSE resolution.result = <<>>

\* C18 witness: try_resolve returned None for a KeyCode of the reverse map
\* because the character step yielded 0.
C18_Witness ==
    /\ resolution.called
    /\ resolution.key_code = "KeyA"
    /\ resolution.virtual_key_code # 0
    /\ resolution.mapped_char = U32(0, 0)
    /\ resolution.result = <<>>

\* The indices of the segments among the entries of state.splits, in order.
ShownSegments ==
    LET IsSegment(e) == e.index[1] = 0
        entries == SelectSeq(splits, IsSegment)
    IN  [k \in 1..Len(entries) |-> entries[k].index[2]]

\* C19: after any sequence of scroll_up, scroll_down and update_state the
\* window of the last update_state lies inside the run: the first shown
\* segment is between 0 and max(0, n - v), v the effective visual split
\* count, every shown segment index is below n, and the indices increase.
C19_WindowInsideRun ==
    LET n == run_len
        v == VisualSplitCount(settings, n)
        shown == ShownSegments
    IN  /\ \A k \in 1..Len(shown) : shown[k] >= 0 /\ shown[k] < n
        /\ \A k \in 1..(Len(shown) - 1) : shown[k] < shown[k + 1]
        /\ shown # <<>> => shown[1] <= max(0, n - v)
        /\ splits # <<>> => shown # <<>>

\* C19 witness: with three segments and two shown, the window was scrolled
\* down as far as it goes: update_state left the offset at 1 and shows the
\* segments 1 and 2.
C19_Witness ==
    /\ run_len = 3
    /\ settings.visual_split_count = 2
    /\ ~settings.always_show_last_split
    /\ pending = 0
    /\ scroll_offset = 1
    /\ ShownSegments = <<1, 2>>

\* The entries update_state produces for the timer index it saw last, from
\* the component as it is but with the given scroll offset.
ShowsWithOffset(offset) ==
    UpdateState(settings, run_len, current_split_index, offset,
                current_split_index).splits

\* C20: when update_state has just shown the window at the top (no segment
\* is skipped), scroll_up, scroll_down, update_state shows what scroll_down,
\* update_state shows; and when it has just shown the window at the bottom,
\* scroll_down, scroll_up, update_state shows what scroll_up, update_state
\* shows.
C20_ScrollAtEndIsNoOp ==
    (pending = 0 /\ splits # <<>>) =>
        LET n == run_len
            v == VisualSplitCount(settings, n)
            skip_count == UpdateState(settings, n, current_split_index,
                                      scroll_offset, current_split_index).skip_count
        IN  /\ skip_count = 0 =>
                ShowsWithOffset(saturating_add(saturating_sub(scroll_offset, 1), 1))
                    = ShowsWithOffset(saturating_add(scroll_offset, 1))
            /\ skip_count = max(0, n - v) =>
                ShowsWithOffset(saturating_sub(saturating_add(scroll_offset, 1), 1))
                    = ShowsWithOffset(saturating_sub(scroll_offset, 1))

\* state.splits as update_state would leave it when called now, with the timer
\* on current_split.
Updated(current_split) ==
    UpdateState(settings, run_len, current_split_index, scroll_offset,
                current_split).splits

\* C21: the index fields of the entries of state.splits are pairwise
\* distinct, blank entries included.
C21_IndicesDistinct ==
    \A j, k \in 1..Len(splits) : j # k => splits[j].index # splits[k].index

\* C21 witness: update_state produced a segment entry followed by two blank
\* entries.
C21_Witness ==
    /\ Len(splits) = 3
    /\ splits[1].index = SegmentIndex(0)
    /\ splits[2].index = BlankIndex(0)
    /\ splits[3].index = BlankIndex(1)

\* C22: with visual_split_count 0, state.splits as update_state leaves it
\* holds the segments 0..n-1, each once and in order, and nothing else.
C22_ZeroShowsAll ==
    settings.visual_split_count = 0 =>
        /\ splits # <<>> =>
                splits = [k \in 1..run_len |->
                            [index |-> SegmentIndex(k - 1),
                             is_current_split |-> current_split_index = <<k - 1>>]]
        /\ \A current_split \in TimerIndices(run_len) :
                Updated(current_split) =
                    [k \in 1..run_len |->
                        [index |-> SegmentIndex(k - 1),
                         is_current_split |-> current_split = <<k - 1>>]]

\* C22 witness: all four segments of a run are shown with visual_split_count
\* 0, after scrolling, with the last split locked and the timer on segment 2.
C22_Witness ==
    /\ settings.visual_split_count = 0
    /\ settings.always_show_last_split
    /\ run_len = 4
    /\ current_split_index = <<2>>
    /\ pending = MaxScroll
    /\ ShownSegments = <<0, 1, 2, 3>>

\* The number of entries the component is meant to show for a non-zero
\* visual_split_count.
EntryCount ==
    IF settings.fill_with_blank_space
    THEN settings.visual_split_count
    ELSE min(settings.visual_split_count, run_len)

\* The number of leading segment entries of a list of split states.
RealCount(list) == Cardinality({k \in 1..Len(list) : list[k].index[1] = 0})

\* C23: for a non-zero visual_split_count v, update_state leaves exactly v
\* entries with fill_with_blank_space (segments first, then blanks) and
\* exactly min(v, n) entries without it.
C23_EntryCount ==
    settings.visual_split_count # 0 =>
        /\ splits # <<>> => Len(splits) = EntryCount
        /\ \A current_split \in TimerIndices(run_len) :
            LET list == Updated(current_split)
            IN  /\ Len(list) = EntryCount
                /\ \A k \in 1..Len(list) :
                      list[k].index[1] = 0 <=> k <= RealCount(list)
                /\ ~settings.fill_with_blank_space => RealCount(list) = Len(list)

\* C23 witness: a window of 3 with the last split locked and no blank fill
\* on a run of 4 shows segments 0, 1 and 3.
C23_Witness ==
    /\ settings.visual_split_count = 3
    /\ ~settings.fill_with_blank_space
    /\ settings.always_show_last_split
    /\ run_len = 4
    /\ Len(splits) = 3
    /\ ShownSegments = <<0, 1, 3>>

\* C24: with always_show_last_split and a non-empty run, the last segment is
\* an entry of state.splits after every update_state, exactly once.
C24_LastSplitShownOnce ==
    settings.always_show_last_split =>
        /\ splits # <<>> =>
            Cardinality({k \in 1..Len(splits) :
                            splits[k].index = SegmentIndex(run_len - 1)}) = 1
        /\ \A current_split \in TimerIndices(run_len) :
            LET list == Updated(current_split)
            IN  Cardinality({k \in 1..Len(list) :
                                list[k].index = SegmentIndex(run_len - 1)}) = 1

\* C24 witness: the last of four segments is shown below a window it is not
\* part of, with the timer on the first segment.
C24_Witness ==
    /\ settings.always_show_last_split
    /\ settings.visual_split_count = 2
    /\ run_len = 4
    /\ current_split_index = <<0>>
    /\ ShownSegments = <<0, 3>>

\* C25: when the installation of the native hook fails, the engine thread
\* sends the error and terminates without entering the native event loop.
C25_FailedInstallNeverLoops ==
    hook = "null" => engPc \notin {"init_state", "loop"}

\* The state C25 excludes, after Hook::new has returned the error: no Hook
\* exists that could post MSG_EXIT, the engine waits in GetMessageW and the
\* dispatcher waits on the queue the engine keeps open.
C25_FailedNewLeavesThreads ==
    ~(newResult = "WindowsHook" /\ appPc = "failed"
        /\ engPc = "loop" /\ dispPc = "recv" /\ state # <<>>)

\* C26: the dispatcher leaves its loop only from an empty queue whose
\* producing side is closed, so it never exits while the engine still holds
\* the sender and never leaves a queued event behind; and once the engine
\* thread has ended the dispatcher drains the queue and exits.
C26_DispatcherExitsOnClosure ==
    /\ [](dispPc = "exited" => (events = <<>> /\ ~EventsTxAlive))
    /\ [][ (dispPc # "exited" /\ dispPc' = "exited") =>
                (dispPc = "recv" /\ events = <<>> /\ EngineEnded) ]_vars
    /\ [][ (EngineEnded /\ events # <<>>) =>
                (events' = events \/ (events' = Tail(events)
                                        /\ dispKey' = Head(events))) ]_vars
    /\ (EngineEnded ~> dispPc = "exited")

\* C26 witness: the engine sent MaxSent Hotkeys and ended, the dispatcher
\* invoked a callback for one of them and then left its loop on closure.
C26_Witness ==
    /\ dispPc = "exited"
    /\ engPc = "exited"
    /\ sentCount = MaxSent
    /\ events = <<>>
    /\ \E h \in DOMAIN track : track[h].inv >= 1

\* The native event loop has reported an error after a successful
\* installation: the engine closure returned Err(MessageLoop).
LoopFailed == engRet = "MessageLoop" /\ hook = "hhook"

\* C27: after an error of the native event loop that follows a successful
\* installation the engine thread has ended and sends no further Hotkey; the
\* error reaches neither the result of Hook::new nor the result of a
\* registry call nor the initialisation channel; register and unregister
\* still take the lock and return their ordinary results, and the Hook can
\* still be destroyed, which posts nothing to the ended thread.
C27_LoopErrorIsSilent ==
    /\ [](LoopFailed =>
            /\ engPc = "exited" /\ state = <<>>
            /\ newResult \in {None, "Ok"}
            /\ initialized \in {<<>>, << <<"Ok", "engine">> >>}
            /\ lastResult \in {None, "Ok", "AlreadyRegistered", "NotRegistered"}
            /\ appPc \in {"new_recv", "ready", "lock", "locked", "dropped"}
            /\ appPc # "new_recv" => (newResult = "Ok" /\ initialized = <<>>))
    /\ [][ LoopFailed =>
            /\ sentCount' = sentCount
            /\ events' = events \/ events' = Tail(events)
            /\ engPc' = "exited" /\ engRet' = engRet ]_vars
    /\ [][ (LoopFailed /\ appPc = "locked" /\ appPc' # "locked") =>
            /\ appPc' = "ready" /\ mutex' = "free"
            /\ lastResult' = IF appOp.op = "register"
                             THEN RegisterMap(hotkeys, appOp.hotkey,
                                              appOp.callback[1]).result
                             ELSE UnregisterMap(hotkeys, appOp.hotkey).result ]_vars
    /\ [][ (LoopFailed /\ appPc # "dropped" /\ appPc' = "dropped") =>
            (appPc = "ready" /\ posted' = posted) ]_vars
    /\ [](LoopFailed /\ appPc = "ready" => ENABLED Drop)
    /\ (LoopFailed /\ appPc \in {"lock", "locked"}) ~> (appPc = "ready")

\* C27 witness: after the loop error the application is waiting for the
\* registry lock, which the dispatcher holds during a callback for a Hotkey
\* sent before the error.
C27_Witness ==
    /\ LoopFailed
    /\ appPc = "lock"
    /\ mutex = "dispatcher"
    /\ sentCount >= 1

\* C28: the Hotkey sent for a key-down transition carries the modifier set
\* as it was before the event: in the step that sends it the key was up and
\* is down afterwards, the Hotkey holds the old modifiers, and the new
\* modifiers are the old ones plus the flag of the key; so from a State with
\* no modifier and ControlLeft and KeyA up, a ControlLeft press sends
\* (ControlLeft, {}) and the KeyA press after it sends (KeyA, {CONTROL}).
C28_HotkeyCarriesOldModifiers ==
    /\ [][ sentCount' = sentCount + 1 =>
            /\ state # <<>> /\ state' # <<>>
            /\ LET sent == events'[Len(events')]
               IN  /\ sent.modifiers = state[1].modifiers
                   /\ KeyIsUp(state[1].key_state, sent.key_code)
                   /\ ~KeyIsUp(state'[1].key_state, sent.key_code)
                   /\ state'[1].modifiers =
                        state[1].modifiers \cup ModifierOf(sent.key_code) ]_vars
    /\ []((/\ state # <<>>
           /\ state[1].modifiers = {}
           /\ KeyIsUp(state[1].key_state, "ControlLeft")
           /\ KeyIsUp(state[1].key_state, "KeyA")) =>
            LET first == ProcessEvent(state[1], 0, WM_KEYDOWN, ControlLeft[1],
                                      ControlLeft[2], ControlLeft[3])
                second == ProcessEvent(first.st, 0, WM_KEYDOWN, KeyA[1], KeyA[2],
                                       KeyA[3])
            IN  /\ first.sent = <<Hotkey("ControlLeft", {})>>
                /\ first.st.modifiers = {CONTROL}
                /\ second.sent = <<Hotkey("KeyA", {CONTROL})>>)

\* C28 witness: ControlLeft and then KeyA went down; both Hotkeys are in the
\* queue and the State holds CONTROL.
C28_Witness ==
    /\ events = <<Hotkey("ControlLeft", {}), Hotkey("KeyA", {CONTROL})>>
    /\ state # <<>>
    /\ state[1].modifiers = {CONTROL}

\* The KeyCodes of the keys of the SpecKeys keyboard.
InputKeyCodes ==
    { parse_scan_code(ScanCodeOf(k[1], k[2], k[3])) : k \in ModifierKeys \cup {KeyA} }

\* C29: in every reachable State, whether the key is tracked as down or not,
\* the key-up of a recognised key leaves its state bit clear and the
\* modifiers without the flag of the key, sends nothing, changes no bit of
\* key_state but the one of that key, and a second key-up of the same key
\* changes nothing more.
C29_KeyUpIdempotent ==
    state # <<>> =>
        \A k \in ModifierKeys \cup {KeyA} :
            LET key_code == parse_scan_code(ScanCodeOf(k[1], k[2], k[3]))
                st == state[1]
                once == ProcessEvent(st, 0, WM_KEYUP, k[1], k[2], k[3])
                twice == ProcessEvent(once.st, 0, WM_KEYUP, k[1], k[2], k[3])
            IN  /\ key_code \in InputKeyCodes
                /\ KeyIsUp(once.st.key_state, key_code)
                /\ once.st.modifiers = st.modifiers \ ModifierOf(key_code)
                /\ once.sent = <<>>
                /\ twice.st = once.st /\ twice.sent = <<>>
                /\ \A other \in InputKeyCodes \ {key_code} :
                        /\ key_idx(other) # key_idx(key_code)
                        /\ KeyIsUp(once.st.key_state, other)
                                = KeyIsUp(st.key_state, other)
                /\ LET ib == key_idx(key_code)
                   IN  once.st.key_state =
                        [st.key_state EXCEPT ![ib[1]] = @ - BitAnd(@, ib[2])]

\* C29 witness: ControlLeft went down, which sent the only Hotkey, and a
\* key-up of ControlRight, which was not tracked as down, cleared CONTROL and
\* left the bit of ControlLeft alone.
C29_Witness ==
    /\ state # <<>>
    /\ sentCount = 1
    /\ events = <<Hotkey("ControlLeft", {})>>
    /\ ~KeyIsUp(state[1].key_state, "ControlLeft")
    /\ KeyIsUp(state[1].key_state, "ControlRight")
    /\ state[1].modifiers = {}

\* Base scan codes, flag words (none, extended, injected, up and extended)
\* and virtual keys on which the lookup key is evaluated.
BaseScanCodes == {\h1C, \h1D, \h38}
FlagWords == {0, 1, \h10, \h81}
VirtualKeys == {0, \hA3}

\* Native key data <<scanCode, flags, vkCode>> with the key the claim names
\* for them: base codes without and with the extended flag, and scan code 0
\* with a virtual key that has a translation or has none.
LookupEvents ==
    { <<\h1C, \h81, 0, "NumpadEnter">>, <<\h1D, \h10, \hA2, "ControlLeft">>,
      <<\h1D, 1, \hA3, "ControlRight">>, <<\h38, \h11, 0, "AltRight">>,
      <<0, 1, \h41, "KeyA">>, <<0, 1, 0, None>> }

\* C30: the lookup key of a native event is scanCode + 0xE000 for a non-zero
\* scanCode with the extended flag, scanCode for a non-zero scanCode without
\* it, and the translation of vkCode for scanCode 0; 0x1C, 0x1D and 0x38
\* therefore resolve to Enter, ControlLeft, AltLeft without the flag and to
\* NumpadEnter, ControlRight, AltRight with it; and in every reachable State
\* the key-down and the key-up branch act on the key of that lookup key.
C30_LookupKey ==
    /\ \A sc \in BaseScanCodes, fl \in FlagWords, vk \in VirtualKeys :
        /\ ScanCodeOf(sc, fl, vk) = IF fl % 2 = 1 THEN sc + \hE000 ELSE sc
        /\ ScanCodeOf(0, fl, vk) = MapVirtualKeyW(vk)
    /\ parse_scan_code(ScanCodeOf(\h1C, 0, 0)) = "Enter"
    /\ parse_scan_code(ScanCodeOf(\h1C, 1, 0)) = "NumpadEnter"
    /\ parse_scan_code(ScanCodeOf(\h1D, 0, 0)) = "ControlLeft"
    /\ parse_scan_code(ScanCodeOf(\h1D, 1, 0)) = "ControlRight"
    /\ parse_scan_code(ScanCodeOf(\h38, 0, 0)) = "AltLeft"
    /\ parse_scan_code(ScanCodeOf(\h38, 1, 0)) = "AltRight"
    /\ state # <<>> =>
        \A e \in LookupEvents :
            LET down == ProcessEvent(state[1], 0, WM_KEYDOWN, e[1], e[2], e[3])
                up == ProcessEvent(state[1], 0, WM_KEYUP, e[1], e[2], e[3])
            IN  IF e[4] = None
                THEN down.st = state[1] /\ up.st = state[1]
                ELSE /\ down.st = KeyDown(state[1], e[4]).st
                     /\ down.sent = KeyDown(state[1], e[4]).sent
                     /\ up.st = KeyUp(state[1], e[4]).st

\* C30 witness: scan code 0x1D arrived with the extended flag and then
\* without it: ControlRight and then ControlLeft went down, as two keys.
C30_Witness ==
    /\ events = <<Hotkey("ControlRight", {}), Hotkey("ControlLeft", {CONTROL})>>
    /\ state # <<>>
    /\ ~KeyIsUp(state[1].key_state, "ControlRight")
    /\ ~KeyIsUp(state[1].key_state, "ControlLeft")

\* C31: the thread local State changes only in steps of the engine thread:
\* a step that changes something of the application thread, of the registry
\* or of the dispatcher (register, unregister, try_resolve, the dispatcher,
\* Drop) leaves
\* it as it is; and a step of the spawned engine thread, which is what
\* changes the engine position, the State, the hook or the count of sent
\* Hotkeys, leaves the registry and its lock as they are.
C31_StateIsThreadConfined ==
    /\ [][ (appVars' # appVars \/ regVars' # regVars \/ dispVars' # dispVars
                \/ opCount' # opCount \/ resolution' # resolution) =>
            (state' = state /\ hook' = hook /\ nativeHook' = nativeHook) ]_vars
    /\ [][ (engPc # "unspawned"
                /\ (engVars' # engVars \/ sentCount' # sentCount
                        \/ swallowed' # swallowed)) =>
            (regVars' = regVars /\ appVars' = appVars /\ dispVars' = dispVars) ]_vars

\* C31 witness: ControlLeft is tracked as down with CONTROL set while the
\* registry holds an entry and the Hook has been destroyed.
C31_Witness ==
    /\ state # <<>>
    /\ state[1].modifiers = {CONTROL}
    /\ ~KeyIsUp(state[1].key_state, "ControlLeft")
    /\ DOMAIN hotkeys # {}
    /\ appPc = "dropped"

\* C32: the registry is used under mutual exclusion: register and unregister
\* are at work on the map exactly while the application holds the lock, a
\* callback is running exactly while the dispatcher holds it, since its
\* lookup, so the two never overlap and at most one callback runs; and the
\* application does not hold the lock once its call has returned.
C32_RegistryMutualExclusion ==
    /\ mutex \in {"free", "app", "dispatcher"}
    /\ appPc = "locked" <=> mutex = "app"
    /\ dispPc = "callback" <=> mutex = "dispatcher"
    /\ Len(active) = IF mutex = "dispatcher" THEN 1 ELSE 0
    /\ ~(appPc = "locked" /\ dispPc = "callback")
    /\ dispPc = "callback" =>
            (dispKey \in DOMAIN hotkeys /\ active = <<hotkeys[dispKey]>>)
    /\ appPc \in {"ready", "dropped"} => mutex # "app"

\* C32 witness: a register call waits for the lock while the dispatcher
\* holds it for a running callback, with a further Hotkey queued.
C32_Witness ==
    /\ appPc = "lock"
    /\ appOp.op = "register"
    /\ mutex = "dispatcher"
    /\ Len(active) = 1
    /\ events # <<>>

C34_UnregisteredNeverInvoked ==
    /\ [][ Invokes =>
            /\ dispPc = "lock"
            /\ dispKey \in DOMAIN hotkeys
            /\ active' = <<hotkeys[dispKey]>>
            /\ hotkeys' = hotkeys ]_vars
    /\ [][ (appPc = "locked" /\ appOp.op = "unregister" /\ appPc' = "ready"
                /\ lastResult' = "Ok") =>
            /\ appOp.hotkey \in DOMAIN hotkeys
            /\ appOp.hotkey \notin DOMAIN hotkeys'
            /\ active = <<>> /\ active' = <<>> ]_vars
    /\ [][ \A h \in DOMAIN hotkeys' :
            (h \notin DOMAIN hotkeys \/ hotkeys'[h] # hotkeys[h]) =>
                /\ appPc = "locked" /\ appOp.op = "register"
                /\ h = appOp.hotkey /\ h \notin DOMAIN hotkeys
                /\ hotkeys'[h] = appOp.callback[1]
                /\ appOp.callback[1] = opCount ]_vars
    /\ [](\A h \in DOMAIN hotkeys : hotkeys[h] <= opCount)

\* C34 witness: (KeyA, {}) was registered and unregistered, both with Ok;
\* the dispatcher holds a (KeyA, {}) it has received and the registry is
\* empty, so the lookup will invoke nothing.
C34_Witness ==
    /\ opCount = 2
    /\ appPc = "ready"
    /\ lastResult = "Ok"
    /\ hotkeys = EmptyMap
    /\ dispPc = "lock"
    /\ dispKey = Hotkey("KeyA", {})

\* C35: once a callback has called register or unregister on its own Hook,
\* it stays in that call with the dispatcher holding the lock: no step ends
\* the invocation or frees the lock, no callback is entered, the registry
\* stays as it is, and an application call that has reached lock() stays
\* there, none takes the lock or returns.
C35_ReentrantCallbackDeadlocks ==
    /\ [](dispPc = "reentered" =>
            (mutex = "dispatcher" /\ Len(active) = 1 /\ appPc # "locked"))
    /\ [][ dispPc = "reentered" =>
            /\ dispPc' = "reentered"
            /\ mutex' = mutex /\ active' = active /\ hotkeys' = hotkeys
            /\ dispKey' = dispKey
            /\ ~Invokes
            /\ appPc = "lock" => (appPc' = "lock" /\ lastResult' = lastResult)
            /\ appPc' # "locked" ]_vars

\* C35 witness: a callback is stuck in its own call, a further Hotkey is
\* queued and an unregister call of the application waits for the lock.
C35_Witness ==
    /\ dispPc = "reentered"
    /\ events # <<>>
    /\ appPc = "lock"
    /\ appOp.op = "unregister"

\* C36: the engine thread never waits for the dispatcher or for the lock:
\* in the loop, with the hook installed, while a callback is running and
\* the dispatcher holds the lock, whatever is queued, callback_proc can run
\* for a key-down and for a key-up (up to the number of sends the model
\* follows), and every event delivered so far has been passed to the next
\* hook.
C36_EngineNeverWaits ==
    /\ swallowed = 0
    /\ (engPc = "loop" /\ nativeHook /\ state # <<>>
            /\ dispPc = "callback") =>
        \A e \in {Native(0, WM_KEYDOWN, KeyA), Native(0, WM_KEYUP, ControlLeft)} :
            LET r == ProcessEvent(state[1], e[1], e[2], e[3], e[4], e[5])
            IN  sentCount + Len(r.sent) <= MaxSent =>
                    ENABLED callback_proc(e[1], e[2], e[3], e[4], e[5])

\* C36 witness: while the callback of (KeyA, {}) is running and a register
\* call waits for the lock, the engine has taken the press of ControlLeft:
\* its Hotkey is queued and CONTROL is tracked.
C36_Witness ==
    /\ dispPc = "callback"
    /\ dispKey = Hotkey("KeyA", {})
    /\ appPc = "lock"
    /\ events = <<Hotkey("ControlLeft", {})>>
    /\ state # <<>>
    /\ state[1].modifiers = {CONTROL}

\* C37: callback_proc never finds the thread local State uninitialized: the
\* engine thread is in the native event loop, the only place from which
\* callback_proc runs, only with the State stored, with the hook handle of
\* the installation in it; while the hook is installed and the State is not
\* yet stored no event has been processed; and the engine thread never ends
\* by the panic of the assertion.
C37_StateInitializedInLoop ==
    /\ engPc # "panicked"
    /\ engPc = "loop" => (state # <<>> /\ state[1].hook = hook)
    /\ state = <<>> => (sentCount = 0 \/ engPc = "exited")
    /\ (engPc \in {"install", "init_state"}) =>
            (state = <<>> /\ sentCount = 0 /\ swallowed = 0 /\ held = EmptyMap)

\* C37 witness: the hook is installed, Hook::new has taken the success
\* message and returned, and the engine thread has not yet stored the State.
C37_Witness ==
    /\ engPc = "init_state"
    /\ nativeHook
    /\ state = <<>>
    /\ newResult = "Ok"
    /\ appPc = "ready"

\* C38: whenever the engine thread has exited after a successful
\* installation, by the shutdown message or by an error of the native event
\* loop, the native hook is no longer installed.
C38_ExitedEngineHasUnhooked ==
    (engPc = "exited" /\ hook = "hhook") => ~nativeHook

\* The path of C38 that holds: an engine thread that has ended by the
\* shutdown message has called UnhookWindowsHookEx.
C38_ShutdownUnhooks ==
    (engPc = "exited" /\ hook = "hhook" /\ engRet = "Ok") => ~nativeHook

\* C39: a step of update_state that finds the timer on another split index
\* than the one it stored leaves scroll_offset 0; one that finds the same
\* index leaves the accumulated offset, clamped to the range in which the
\* window stays inside the run; and the window it shows starts that offset
\* after its automatic position.
C39_ScrollResetOnIndexChange ==
    [][ pending' # pending + 1 =>
            LET visual_split_count == VisualSplitCount(settings, run_len)
                skip_count == BaseSkipCount(settings, run_len, current_split_index')
                take_count == TakeCount(visual_split_count,
                                IF settings.always_show_last_split THEN 1 ELSE 0)
            IN  /\ pending' = 0
                /\ IF current_split_index' # current_split_index
                   THEN scroll_offset' = 0
                   ELSE scroll_offset' =
                            min(max(scroll_offset, -skip_count),
                                run_len - skip_count - visual_split_count)
                /\ take_count > 0 =>
                        splits'[1].index =
                            SegmentIndex(max(0, skip_count + scroll_offset'))
      ]_vars

\* C39 witness: an update_state with the timer still on segment 3 of four
\* has kept a scroll of one upwards: the window of two starts at segment 1.
C39_Witness ==
    /\ run_len = 4
    /\ settings.visual_split_count = 2
    /\ ~settings.always_show_last_split
    /\ current_split_index = <<3>>
    /\ pending = 0
    /\ scroll_offset = -1
    /\ ShownSegments = <<1, 2>>

\* The number of entries of a list of split states that are marked as the
\* current split.
CurrentCount(list) ==
    Cardinality({k \in 1..Len(list) : list[k].is_current_split})

C40_CurrentSplitShownInWideWindow ==
    \A c \in 0..(run_len - 1) :
        (/\ current_split_index # <<c>> \/ scroll_offset = 0
         /\ VisualSplitCount(settings, run_len) >
                settings.split_preview_count
                    + (IF settings.always_show_last_split THEN 1 ELSE 0)) =>
            LET list == Updated(<<c>>)
            IN  /\ CurrentCount(list) = 1
                /\ \A k \in 1..Len(list) :
                        list[k].is_current_split => list[k].index = SegmentIndex(c)

\* C40: no entry is ever marked as the current split unless its index is the
\* timer's split index, and never more than one entry is marked.
C40_AtMostOneCurrent ==
    /\ CurrentCount(splits) <= 1
    /\ \A k \in 1..Len(splits) :
            splits[k].is_current_split =>
                <<splits[k].index[2]>> = current_split_index

====
